---- MODULE Spec2Model ----
(***************************************************************************)
(* escpos-parser: the tokenizer (lib/parser.js parseHexString, parseBuffer, *)
(* parseNextItem, parseCommand, parseTextData, decodeText), the command    *)
(* registry (lib/commands.js COMMANDS, findCommand) and the TextFormatter  *)
(* (lib/parser.js formatAsText).                                           *)
(*                                                                         *)
(* Conventions.  A Buffer is a sequence of bytes 0..255; the code's        *)
(* 0-based index i is kept and data[i] is written At(data, i).  A JS       *)
(* string is the sequence of its UTF-16 code units.  A JS object is a      *)
(* record holding the properties whose value is defined: a property set    *)
(* to undefined is absent, as it is in the JSON form of the token.  The    *)
(* Chinese description literals of the source are written as ASCII         *)
(* glosses.                                                                *)
(***************************************************************************)
EXTENDS Integers, Sequences, FiniteSets, TLC

VARIABLES
  mode,        \* entry point called: "hex" (parseHexString) or "buffer" (parseBuffer)
  hexString,   \* parseHexString's argument (characters as code units)
  buffer,      \* the Buffer given to parseBuffer
  encoding,    \* the encoding argument
  pc,          \* position: "hex", "outer", "text", "done", "error"
  index,       \* parseBuffer's cursor
  result,      \* parseBuffer's result array
  tIndex,      \* parseTextData's index
  textBytes,   \* parseTextData's textBytes
  ranges,      \* per element of result: the buffer positions [from, to) it was read from
  producedBy,  \* per element of result: the decoder that produced its text ("" for none)
  failed,      \* per element of result: the encodings whose iconv.decode threw for it
  skipped,     \* buffer positions parseTextData passed over without collecting
  calls,       \* number of parseNextItem calls made
  \* one formatAsText pass (a TextFormatter)
  options,       \* options.lineWidth given to formatAsText (Undefined when absent)
  fpc,           \* "idle", "format" (inside format's loop), "done"
  items,         \* the items argument
  pos,           \* number of items processed
  lines,         \* this.lines
  currentLine,   \* this.currentLine
  currentAlign,  \* this.currentAlign
  isBold,        \* this.isBold
  hasUnderline,  \* this.hasUnderline
  lineWidth,     \* this.lineWidth
  output,        \* format's return value (lines joined by "\n")
  finalized,     \* per line added by addFormattedLine: its index in this.lines (at),
                 \* the number of the token that finalized it (by; one past the
                 \* last token for finalizeLine) and the buffered text it was made of
  \* callers of the exported functions
  passes,        \* the formatAsText calls that returned: items, options, output
  summary,       \* generateReport's summary (<<>> before generateSummary ran)
  registry,      \* the definitions findCommand scans, in Object.entries order
  found          \* what a direct call of findCommand returned

fvars == <<options, fpc, items, pos, lines, currentLine, currentAlign, isBold,
           hasUnderline, lineWidth, output, finalized>>

xvars == <<passes, summary, registry, found>>

pvars == <<mode, hexString, buffer, encoding, pc, index, result, tIndex,
           textBytes, ranges, producedBy, failed, skipped, calls>>

-----------------------------------------------------------------------------
(* Bytes and characters *)

NUL == 0
LF == 10
CR == 13
ESC == 27
GS == 29
SPACE == 32
BANG == 33
MINUS == 45
DIGIT_2 == 50
DIGIT_3 == 51
AT_SIGN == 64
UPPER_B == 66
UPPER_E == 69
UPPER_G == 71
UPPER_V == 86
LOWER_A == 97
LOWER_D == 100
LOWER_T == 116
HIGH_80 == 128
HIGH_8A == 138       \* a byte of the range 128-255 whose low seven bits are 0x0A

Undefined == -1      \* JS undefined (a read past the end of the buffer)
Null == [name |-> "null", bytes |-> <<>>]

At(data, i) == IF i >= 0 /\ i < Len(data) THEN data[i + 1] ELSE Undefined

Min(a, b) == IF a < b THEN a ELSE b
Max(a, b) == IF a > b THEN a ELSE b

-----------------------------------------------------------------------------
(* lib/commands.js *)

\* COMMANDS in Object.entries order: name and signature bytes
COMMANDS ==
  << [name |-> "INITIALIZE",     bytes |-> <<ESC, AT_SIGN>>],
     [name |-> "ALIGN",          bytes |-> <<ESC, LOWER_A>>],
     [name |-> "PRINT_AND_FEED", bytes |-> <<ESC, LOWER_D>>],
     [name |-> "CUT_PAPER",      bytes |-> <<GS, UPPER_V>>],
     [name |-> "FONT_SIZE",      bytes |-> <<GS, BANG>>],
     [name |-> "BOLD",           bytes |-> <<ESC, UPPER_E>>],
     [name |-> "UNDERLINE",      bytes |-> <<ESC, MINUS>>],
     [name |-> "LINE_SPACING",   bytes |-> <<ESC, DIGIT_3>>],
     [name |-> "CHAR_SPACING",   bytes |-> <<ESC, SPACE>>],
     [name |-> "BOLD_MODE",      bytes |-> <<GS, UPPER_B>>] >>

SignatureMatchesBeforeParameter(command, data, idx) ==
  /\ idx + Len(command.bytes) + 1 <= Len(data)
  /\ \A i \in 0..(Len(command.bytes) - 1) : At(data, idx + i) = command.bytes[i + 1]

\* the byte-by-byte comparison of one definition at index, with the length check
SignatureMatches(command, data, idx) ==
  /\ idx + Len(command.bytes) <= Len(data)
  /\ \A i \in 0..(Len(command.bytes) - 1) : At(data, idx + i) = command.bytes[i + 1]

RECURSIVE FindLastFrom(_, _, _)
FindLastFrom(k, data, idx) ==
  IF k > Len(registry) THEN Null
  ELSE LET later == FindLastFrom(k + 1, data, idx) IN
       IF later /= Null THEN later
       ELSE IF SignatureMatches(registry[k], data, idx) THEN registry[k]
       ELSE Null

\* the loop over Object.entries(COMMANDS) from the k-th entry on; the exported
\* COMMANDS object is read when findCommand is called (registry)
RECURSIVE FindFrom(_, _, _)
FindFrom(k, data, idx) ==
  IF k > Len(registry) THEN Null
  ELSE IF SignatureMatches(registry[k], data, idx) THEN registry[k]
  ELSE FindFrom(k + 1, data, idx)

findCommand(data, idx) == FindFrom(1, data, idx)

isPrintableCharAsciiOnly(byte) == byte >= 32 /\ byte <= 126

isPrintableChar(byte) == (byte >= 32 /\ byte <= 126) \/ byte >= 128

isNewLine(byte) == byte = LF \/ byte = CR

-----------------------------------------------------------------------------
(* lib/commands.js: the parse functions of the definitions *)

\* `${v}` in a template literal
Str(v) == IF v = Undefined THEN "undefined" ELSE ToString(v)

\* an object literal with a property value: v
WithValue(item, v) == IF v = Undefined THEN item ELSE item @@ [value |-> v]

\* size & 0xf0 >> 4 and size & 0x0f (undefined & n is 0)
HighNibble(size) == IF size = Undefined THEN 0 ELSE (size \div 16) % 16
LowNibble(size) == IF size = Undefined THEN 0 ELSE size % 16

CommandItem(name, description) ==
  [type |-> "command", command |-> name, description |-> description]

AlignName(v) ==
  CASE v = 0 -> "left" [] v = 1 -> "center" [] v = 2 -> "right" [] OTHER -> "unknown"
CutModeName(v) ==
  CASE v = 0 -> "full cut" [] v = 1 -> "partial cut" [] OTHER -> "unknown mode"
UnderlineName(v) ==
  CASE v = 0 -> "off" [] v = 1 -> "1 dot" [] v = 2 -> "2 dots" [] OTHER -> "unknown"
\* JS truthiness of a byte or undefined
Truthy(v) == v /= Undefined /\ v /= 0

FontSizeItemWithoutExtras(v) ==
  WithValue(CommandItem("FONT_SIZE",
      "set font size: width " \o ToString(HighNibble(v) + 1) \o "x height "
        \o ToString(LowNibble(v) + 1) \o "x"), v)

FontSizeItem(v) ==
  WithValue(CommandItem("FONT_SIZE",
      "set font size: width " \o ToString(HighNibble(v) + 1) \o "x height "
        \o ToString(LowNibble(v) + 1) \o "x"), v)
    @@ [width |-> HighNibble(v) + 1, height |-> LowNibble(v) + 1]

\* command.parse(data, index)
Parse(command, data, idx) ==
  LET v == At(data, idx + 2) IN
  CASE command.name = "INITIALIZE" ->
         CommandItem("INITIALIZE", "initialize printer")
    [] command.name = "ALIGN" ->
         WithValue(CommandItem("ALIGN", "set alignment: " \o AlignName(v)), v)
    [] command.name = "PRINT_AND_FEED" ->
         WithValue(CommandItem("PRINT_AND_FEED",
                     "print and feed " \o Str(v) \o " lines"), v)
    [] command.name = "CUT_PAPER" ->
         WithValue(CommandItem("CUT_PAPER", "cut paper: " \o CutModeName(v)), v)
    [] command.name = "FONT_SIZE" -> FontSizeItem(v)
    [] command.name = "BOLD" ->
         WithValue(CommandItem("BOLD",
                     IF Truthy(v) THEN "bold on" ELSE "bold off"), v)
    [] command.name = "UNDERLINE" ->
         WithValue(CommandItem("UNDERLINE", "underline: " \o UnderlineName(v)), v)
    [] command.name = "LINE_SPACING" ->
         WithValue(CommandItem("LINE_SPACING",
                     "set line spacing: " \o Str(v) \o " dots"), v)
    [] command.name = "CHAR_SPACING" ->
         WithValue(CommandItem("CHAR_SPACING",
                     "set char spacing: " \o Str(v) \o " dots"), v)
    [] command.name = "BOLD_MODE" ->
         WithValue(CommandItem("BOLD_MODE",
                     IF Truthy(v) THEN "bold mode on" ELSE "bold mode off"), v)

-----------------------------------------------------------------------------
(* lib/parser.js: the tokenizer *)

DEFAULT_LINE_WIDTH == 48
AsciiMaxLength == 50

parseCommandSignatureOnly(data, idx, command) ==
  [item |-> Parse(command, data, idx), nextIndex |-> idx + Len(command.bytes)]

parseCommandKeepsControlByte(data, idx, command) ==
  LET parsedCommand == Parse(command, data, idx) IN
  [item |-> parsedCommand,
   nextIndex |-> idx + Len(command.bytes)
                   + (IF "value" \in DOMAIN parsedCommand
                         /\ parsedCommand.value \notin {LF, CR, ESC, GS}
                      THEN 1 ELSE 0)]

parseCommandAlwaysParam(data, idx, command) ==
  [item |-> Parse(command, data, idx), nextIndex |-> idx + Len(command.bytes) + 1]

\* parseCommand: the item and the index after the signature and, when the
\* parsed value is defined, after one parameter byte
parseCommand(data, idx, command) ==
  LET parsedCommand == Parse(command, data, idx) IN
  [item |-> parsedCommand,
   nextIndex |-> idx + Len(command.bytes)
                   + (IF "value" \in DOMAIN parsedCommand THEN 1 ELSE 0)]

createTextItem(text, bytes, enc, description) ==
  [type |-> "text", data |-> text, text |-> text, bytes |-> bytes,
   encoding |-> enc, description |-> description]

\* iconv.decode(buffer, codec) when it returns: one code unit per byte of the
\* model's alphabet.  Bytes below 0x80 decode to themselves under every codec;
\* byte 0x80 is U+FFFD under utf8, U+20AC under gbk and 0x00 under ascii.
IconvUnit(codec, byte) ==
  IF byte < 128 THEN byte
  ELSE CASE codec = "utf8" -> 65533
         [] codec = "gbk" -> 8364
         [] OTHER -> byte % 128

Iconv(codec, bytes) == [i \in 1..Len(bytes) |-> IconvUnit(codec, bytes[i])]

\* Buffer.from(bytes).toString('ascii', 0, maxLength)
AsciiString(bytes, maxLength) == [i \in 1..maxLength |-> bytes[i] % 128]

tryAlternativeEncodingUncapped(bytes, originalEncoding, fails) ==
  LET alternativeEncoding == IF originalEncoding = "gbk" THEN "utf8" ELSE "gbk" IN
  IF alternativeEncoding \notin fails
  THEN [text |-> Iconv(alternativeEncoding, bytes), by |-> alternativeEncoding]
  ELSE [text |-> AsciiString(bytes, Len(bytes)), by |-> "ascii"]

\* tryAlternativeEncoding; fails is the set of encodings for which iconv.decode
\* throws on this run.  by names the decoder whose string is returned.
tryAlternativeEncoding(bytes, originalEncoding, fails) ==
  LET alternativeEncoding == IF originalEncoding = "gbk" THEN "utf8" ELSE "gbk" IN
  IF alternativeEncoding \notin fails
  THEN [text |-> Iconv(alternativeEncoding, bytes), by |-> alternativeEncoding]
  ELSE [text |-> AsciiString(bytes, Min(Len(bytes), AsciiMaxLength)), by |-> "ascii"]

\* the encodings decodeText can hand to iconv.decode
AlternativeOf(enc) == IF enc = "gbk" THEN "utf8" ELSE "gbk"
Attempted(enc) == {enc, AlternativeOf(enc)}

decodeText(bytes, enc, fails) ==
  IF enc \notin fails
  THEN [text |-> Iconv(enc, bytes), by |-> enc]
  ELSE tryAlternativeEncoding(bytes, enc, fails)

\* parseHexString: /[\s\n\r\t]/
IsWhitespace(c) == c \in {9, 10, 11, 12, 13, 32, 160}

IsHexDigit(c) == (c >= 48 /\ c <= 57) \/ (c >= 65 /\ c <= 70) \/ (c >= 97 /\ c <= 102)

HexValue(c) ==
  IF c >= 48 /\ c <= 57 THEN c - 48
  ELSE IF c >= 65 /\ c <= 70 THEN c - 55
  ELSE c - 87

\* hexString.replace(/[\s\n\r\t]/g, '')
CleanHex(s) == SelectSeq(s, LAMBDA c : ~IsWhitespace(c))

\* Buffer.from(cleanHex, 'hex'): pairs of hex digits are decoded from the left
\* and decoding stops at the first pair that is not two hex digits
RECURSIVE BufferFromHex(_)
BufferFromHex(s) ==
  IF Len(s) < 2 \/ ~IsHexDigit(s[1]) \/ ~IsHexDigit(s[2]) THEN <<>>
  ELSE <<HexValue(s[1]) * 16 + HexValue(s[2])>> \o BufferFromHex(SubSeq(s, 3, Len(s)))

-----------------------------------------------------------------------------
(* Inputs of the tokenizer *)

MaxLen == 4        \* longest buffer drawn from Bytes
MaxOtherLen == 2   \* the same, when the encoding is neither utf8 nor gbk
MaxAround == 1     \* bytes drawn from Bytes on either side of a byte 0x80
MaxParams == 1     \* bytes drawn from ParamBytes after a lone signature
MaxHexLen == 4     \* longest hex string drawn from HexChars
LongRunLen == 51   \* a text run longer than AsciiMaxLength
MaxCommands == 2   \* most commands written one after another in a command-only buffer

Bytes == {NUL, LF, ESC, BANG, AT_SIGN}

Encodings == {"utf8", "gbk", "ascii"}

SeqsUpTo(S, n) == UNION {[1..k -> S] : k \in 0..n}

Rep(x, n) == [i \in 1..n |-> x]

\* the buffers of the documented scenarios: 1B40, 1B610148656C6C6F, 1D5600,
\* 1B6101 "Hi", the README's 1B401B610148656C6C6F20576F726C640A; and "A" CR LF,
\* and a stray NUL before ESC @, ESC a 1, "Hi", LF
ScenarioBuffers ==
  { <<27, 64>>,
    <<27, 97, 1, 72, 101, 108, 108, 111>>,
    <<29, 86, 0>>,
    <<27, 97, 1, 72, 105>>,
    <<27, 64, 27, 97, 1, 72, 101, 108, 108, 111, 32, 87, 111, 114, 108, 100, 10>>,
    <<65, 13, 10>>,
    <<0, 27, 64, 27, 97, 1, 72, 105, 10>> }

LongRuns == {Rep(b, n) : b \in {LOWER_A, HIGH_80}, n \in {AsciiMaxLength, LongRunLen}}

\* utf8 (DEFAULT_ENCODING) and gbk (the command line's default) are given with
\* every buffer, any other encoding with the shorter ones
HighByteBuffers ==
  {Append(s, HIGH_80) \o t : s \in SeqsUpTo(Bytes, MaxAround), t \in SeqsUpTo(Bytes, MaxAround)}

\* the signatures the README lists under "Supported Commands":
\* ESC @  ESC !  ESC E  ESC G  ESC -  ESC a  ESC 2  ESC 3  ESC t  ESC d  GS V
ReadmeSignatures ==
  { <<ESC, AT_SIGN>>, <<ESC, BANG>>, <<ESC, UPPER_E>>, <<ESC, UPPER_G>>,
    <<ESC, MINUS>>, <<ESC, LOWER_A>>, <<ESC, DIGIT_2>>, <<ESC, DIGIT_3>>,
    <<ESC, LOWER_T>>, <<ESC, LOWER_D>>, <<GS, UPPER_V>> }

RegisteredSignatures == {COMMANDS[k].bytes : k \in 1..Len(COMMANDS)}

ParamBytes == {NUL, 1, 2, 3, LF, CR, ESC, GS, 17, 255}

\* every registered or documented signature, alone and followed by parameter bytes
SignatureBuffers ==
  {sig \o t : sig \in RegisteredSignatures \cup ReadmeSignatures,
              t \in SeqsUpTo(ParamBytes, MaxParams)}

\* every definition but INITIALIZE reads data[index + 2] as its value
TakesParameter(name) == name /= "INITIALIZE"

CommandParamBytes == {NUL, LF, ESC}

\* a registered command as it is written: its signature, then one parameter
\* byte when it takes a parameter
WrittenCommands ==
  UNION { IF TakesParameter(COMMANDS[k].name)
          THEN {Append(COMMANDS[k].bytes, b) : b \in CommandParamBytes}
          ELSE {COMMANDS[k].bytes} : k \in 1..Len(COMMANDS) }

RECURSIVE Concatenations(_, _)
Concatenations(S, n) ==
  IF n = 0 THEN {<<>>}
  ELSE LET shorter == Concatenations(S, n - 1) IN
       shorter \cup {s \o w : s \in shorter, w \in S}

\* buffers consisting solely of written commands (given with DEFAULT_ENCODING)
CommandBuffers == Concatenations(WrittenCommands, MaxCommands)

BuffersFor(enc) ==
  ScenarioBuffers \cup LongRuns \cup HighByteBuffers \cup SignatureBuffers \cup
  SeqsUpTo(Bytes, IF enc \in {"utf8", "gbk"} THEN MaxLen ELSE MaxOtherLen) \cup
  (IF enc = "utf8" THEN CommandBuffers ELSE {})

\* characters 0 1 4 B z and space
HexChars == {48, 49, 52, 66, 122, 32}

\* "1D5600", "1b 40", "1B610148656C6C6F" and the README's "invalid-hex"
ScenarioHexStrings ==
  { <<49, 68, 53, 54, 48, 48>>,
    <<49, 98, 32, 52, 48>>,
    <<49, 66, 54, 49, 48, 49, 52, 56, 54, 53, 54, 67, 54, 67, 54, 70>>,
    <<105, 110, 118, 97, 108, 105, 100, 45, 104, 101, 120>> }

HexStrings == SeqsUpTo(HexChars, MaxHexLen) \cup ScenarioHexStrings

-----------------------------------------------------------------------------
(* The tokenizer as a state machine *)

FormatterIdle ==
  /\ fpc = "idle"
  /\ pos = 0
  /\ lines = <<>>
  /\ currentLine = <<>>
  /\ currentAlign = 0
  /\ isBold = FALSE
  /\ hasUnderline = FALSE
  /\ lineWidth = DEFAULT_LINE_WIDTH
  /\ output = <<>>
  /\ finalized = <<>>

\* nothing has been formatted or summarised; findCommand scans COMMANDS
CallersIdle ==
  /\ passes = <<>>
  /\ summary = <<>>
  /\ registry = COMMANDS
  /\ found = Null

ParserStart ==
  /\ index = 0
  /\ result = <<>>
  /\ tIndex = 0
  /\ textBytes = <<>>
  /\ ranges = <<>>
  /\ producedBy = <<>>
  /\ failed = <<>>
  /\ skipped = {}
  /\ calls = 0

Init ==
  /\ encoding \in Encodings
  /\ \/ mode = "buffer" /\ buffer \in BuffersFor(encoding) /\ hexString = <<>> /\ pc = "outer"
     \/ mode = "hex" /\ hexString \in HexStrings /\ buffer = <<>> /\ pc = "hex"
  /\ ParserStart
  /\ FormatterIdle
  /\ CallersIdle
  /\ items = <<>>
  /\ options = Undefined

\* parseHexString up to its call of parseBuffer: the two throws, then Buffer.from
HexStringRejected(s) == Len(CleanHex(s)) = 0 \/ Len(CleanHex(s)) % 2 /= 0

ParseHexString ==
  /\ pc = "hex"
  /\ IF HexStringRejected(hexString)
     THEN pc' = "error" /\ UNCHANGED buffer
     ELSE pc' = "outer" /\ buffer' = BufferFromHex(CleanHex(hexString))
  /\ UNCHANGED <<mode, hexString, encoding, index, result, tIndex, textBytes,
                 ranges, producedBy, failed, skipped, calls, fvars, xvars>>

\* parseBuffer's loop, parseNextItem with a command at the cursor: parseCommand
ParseNextCommand ==
  /\ pc = "outer"
  /\ index < Len(buffer)
  /\ \E command \in {findCommand(buffer, index)} :
       /\ command /= Null
       /\ \E parseResult \in {parseCommand(buffer, index, command)} :
            /\ result' = Append(result, parseResult.item)
            /\ ranges' = Append(ranges, [from |-> index, to |-> parseResult.nextIndex])
            /\ producedBy' = Append(producedBy, "")
            /\ index' = parseResult.nextIndex
  /\ calls' = calls + 1
  /\ failed' = Append(failed, {})
  /\ UNCHANGED <<mode, hexString, buffer, encoding, pc, tIndex, textBytes,
                 skipped, fvars, xvars>>

\* parseNextItem with no command at the cursor: parseTextData is entered
ParseNextText ==
  /\ pc = "outer"
  /\ index < Len(buffer)
  /\ findCommand(buffer, index) = Null
  /\ pc' = "text"
  /\ tIndex' = index
  /\ textBytes' = <<>>
  /\ calls' = calls + 1
  /\ UNCHANGED <<mode, hexString, buffer, encoding, index, result, ranges,
                 producedBy, failed, skipped, fvars, xvars>>

TextLoopExitsIgnoringCommands ==
  \/ tIndex >= Len(buffer)
  \/ (isNewLine(At(buffer, tIndex)) /\ Len(textBytes) > 0)
  \/ (~isPrintableChar(At(buffer, tIndex)) /\ Len(textBytes) > 0)

\* parseTextData's loop is left: at the end of the buffer, at a command, or
\* at a line terminator or unprintable byte after a non-empty run
TextLoopExits ==
  \/ tIndex >= Len(buffer)
  \/ findCommand(buffer, tIndex) /= Null
  \/ (isNewLine(At(buffer, tIndex)) /\ Len(textBytes) > 0)
  \/ (~isPrintableChar(At(buffer, tIndex)) /\ Len(textBytes) > 0)

TextNewLineCrLf ==
  /\ pc = "text"
  /\ ~TextLoopExits
  /\ isNewLine(At(buffer, tIndex))
  /\ LET pair == At(buffer, tIndex) = CR /\ tIndex + 1 < Len(buffer)
                   /\ At(buffer, tIndex + 1) = LF
         next == tIndex + (IF pair THEN 2 ELSE 1)
     IN /\ result' = Append(result,
                        createTextItem(<<LF>>, <<At(buffer, tIndex)>>, encoding, "newline"))
        /\ ranges' = Append(ranges, [from |-> tIndex, to |-> next])
        /\ index' = next
  /\ producedBy' = Append(producedBy, "")
  /\ failed' = Append(failed, {})
  /\ pc' = "outer"
  /\ UNCHANGED <<mode, hexString, buffer, encoding, tIndex, textBytes, skipped,
                 calls, fvars, xvars>>

\* a lone line terminator: the newline item is returned from inside the loop
TextNewLine ==
  /\ pc = "text"
  /\ ~TextLoopExits
  /\ isNewLine(At(buffer, tIndex))
  /\ result' = Append(result,
                 createTextItem(<<LF>>, <<At(buffer, tIndex)>>, encoding, "newline"))
  /\ ranges' = Append(ranges, [from |-> tIndex, to |-> tIndex + 1])
  /\ producedBy' = Append(producedBy, "")
  /\ failed' = Append(failed, {})
  /\ index' = tIndex + 1
  /\ pc' = "outer"
  /\ UNCHANGED <<mode, hexString, buffer, encoding, tIndex, textBytes, skipped,
                 calls, fvars, xvars>>

\* a printable byte is collected
TextCollect ==
  /\ pc = "text"
  /\ ~TextLoopExits
  /\ ~isNewLine(At(buffer, tIndex))
  /\ isPrintableChar(At(buffer, tIndex))
  /\ textBytes' = Append(textBytes, At(buffer, tIndex))
  /\ tIndex' = tIndex + 1
  /\ UNCHANGED <<mode, hexString, buffer, encoding, pc, index, result, ranges,
                 producedBy, failed, skipped, calls, fvars, xvars>>

\* an unprintable byte before any text is skipped
TextSkip ==
  /\ pc = "text"
  /\ ~TextLoopExits
  /\ ~isNewLine(At(buffer, tIndex))
  /\ ~isPrintableChar(At(buffer, tIndex))
  /\ skipped' = skipped \cup {tIndex}
  /\ tIndex' = tIndex + 1
  /\ UNCHANGED <<mode, hexString, buffer, encoding, pc, index, result,
                 textBytes, ranges, producedBy, failed, calls, fvars, xvars>>

\* after the loop: the run, if any, is decoded and returned with nextIndex
TextReturn ==
  /\ pc = "text"
  /\ TextLoopExits
  /\ IF Len(textBytes) > 0
     THEN \E fails \in SUBSET Attempted(encoding) :
            LET decoded == decodeText(textBytes, encoding, fails) IN
              /\ failed' = Append(failed, fails)
              /\ result' = Append(result,
                             createTextItem(decoded.text, textBytes, encoding,
                                            "text: " \o ToString(decoded.text)))
              /\ ranges' = Append(ranges,
                             [from |-> tIndex - Len(textBytes), to |-> tIndex])
              /\ producedBy' = Append(producedBy, decoded.by)
     ELSE UNCHANGED <<result, ranges, producedBy, failed>>
  /\ index' = tIndex
  /\ pc' = "outer"
  /\ UNCHANGED <<mode, hexString, buffer, encoding, tIndex, textBytes, skipped,
                 calls, fvars, xvars>>

\* parseBuffer returns result (an empty buffer returns [] at once)
ParseReturn ==
  /\ pc = "outer"
  /\ index >= Len(buffer)
  /\ pc' = "done"
  /\ UNCHANGED <<mode, hexString, buffer, encoding, index, result, tIndex,
                 textBytes, ranges, producedBy, failed, skipped, calls, fvars, xvars>>

Next ==
  \/ ParseHexString
  \/ ParseNextCommand
  \/ ParseNextText
  \/ TextNewLine
  \/ TextCollect
  \/ TextSkip
  \/ TextReturn
  \/ ParseReturn

vars == <<pvars, fvars, xvars>>

Spec == Init /\ [][Next]_vars

-----------------------------------------------------------------------------
(* findCommand called directly, over registries with overlapping signatures *)

MaxDefinitions == 3   \* most definitions in a hypothetical registry
MaxFindLen == 3       \* longest buffer given to findCommand directly

\* definitions whose signatures are byte-prefixes of one another, and one apart
HypotheticalDefinitions ==
  { [name |-> "ONE",   bytes |-> <<ESC>>],
    [name |-> "TWO",   bytes |-> <<ESC, AT_SIGN>>],
    [name |-> "THREE", bytes |-> <<ESC, AT_SIGN, NUL>>],
    [name |-> "APART", bytes |-> <<GS>>] }

\* the registries: COMMANDS as shipped, and every ordering of up to
\* MaxDefinitions distinct hypothetical definitions
Registries ==
  {COMMANDS} \cup
  {r \in SeqsUpTo(HypotheticalDefinitions, MaxDefinitions) :
     \A i, j \in 1..Len(r) : i /= j => r[i] /= r[j]}

FindBuffers == SeqsUpTo({NUL, ESC, GS, AT_SIGN}, MaxFindLen)

InitFind ==
  /\ mode = "find"
  /\ registry \in Registries
  /\ buffer \in FindBuffers
  /\ index \in 0..Len(buffer)
  /\ found = Null
  /\ pc = "idle"
  /\ hexString = <<>> /\ encoding = "utf8"
  /\ result = <<>> /\ tIndex = 0 /\ textBytes = <<>> /\ ranges = <<>>
  /\ producedBy = <<>> /\ failed = <<>> /\ skipped = {} /\ calls = 0
  /\ FormatterIdle
  /\ items = <<>> /\ options = Undefined
  /\ passes = <<>> /\ summary = <<>>

\* findCommand(buffer, index)
FindCommand ==
  /\ mode = "find"
  /\ pc = "idle"
  /\ found' = findCommand(buffer, index)
  /\ pc' = "done"
  /\ UNCHANGED <<mode, hexString, buffer, encoding, index, result, tIndex,
                 textBytes, ranges, producedBy, failed, skipped, calls, fvars,
                 passes, summary, registry>>

NextFind == FindCommand

SpecFind == InitFind /\ [][NextFind]_vars

\* the definitions of the registry whose whole signature stands in the buffer
\* at the index
MatchingAt == 
  {k \in 1..Len(registry) :
     /\ index + Len(registry[k].bytes) <= Len(buffer)
     /\ SubSeq(buffer, index + 1, index + Len(registry[k].bytes)) = registry[k].bytes}

IsPrefix(s, t) == Len(s) <= Len(t) /\ SubSeq(t, 1, Len(s)) = s

\* C13: findCommand changes neither the buffer nor the registry; it returns
\* the first definition in registry order whose whole signature stands in the
\* buffer at the index, and null when there is none; a definition whose
\* signature would extend past the end of the buffer is not returned; of two
\* definitions of which one's signature is a byte-prefix of the other's and
\* which both match, the later-registered one is not returned.
C13_FirstMatchInRegistryOrder ==
  /\ [][buffer' = buffer /\ registry' = registry /\ index' = index]_vars
  /\ []((mode = "find" /\ pc = "done") =>
          /\ IF MatchingAt = {} THEN found = Null
             ELSE found = registry[CHOOSE k \in MatchingAt :
                                     \A other \in MatchingAt : k <= other]
          /\ found /= Null => index + Len(found.bytes) <= Len(buffer)
          /\ \A i, j \in MatchingAt :
               (i < j /\ (\/ IsPrefix(registry[i].bytes, registry[j].bytes)
                          \/ IsPrefix(registry[j].bytes, registry[i].bytes))) =>
                 found /= registry[j])

\* ESC @ NUL looked up at index 0 in the registry THREE, TWO, ONE and found to
\* be THREE: all three match and the first registered is returned
C13_Witness ==
  /\ mode = "find" /\ pc = "done"
  /\ index = 0
  /\ buffer = <<27, 64, 0>>
  /\ Len(registry) = 3
  /\ registry[1].name = "THREE" /\ registry[2].name = "TWO" /\ registry[3].name = "ONE"
  /\ found = registry[1]

\* ESC @ looked up in the registry ONE, TWO: the shorter signature, registered
\* first, is returned
C13_ShortFirstReached ==
  /\ mode = "find" /\ pc = "done"
  /\ index = 0
  /\ buffer = <<27, 64>>
  /\ Len(registry) = 2
  /\ registry[1].name = "ONE" /\ registry[2].name = "TWO"
  /\ found = registry[1]

-----------------------------------------------------------------------------
(* Properties of the tokenizer *)

IsCommandItem(item) == item.type = "command"
IsTextItem(item) == item.type = "text"
Positions(r) == r.from .. (r.to - 1)
Covered == UNION {Positions(ranges[i]) : i \in 1..Len(ranges)}

RECURSIVE SumOfLengths(_)
SumOfLengths(rs) ==
  IF rs = <<>> THEN 0 ELSE (Head(rs).to - Head(rs).from) + SumOfLengths(Tail(rs))

SignatureOf(name) ==
  (CHOOSE k \in 1..Len(COMMANDS) : COMMANDS[k].name = name) 

\* C1: when parseBuffer has returned, the tokens in order occupy disjoint,
\* strictly increasing byte ranges of the buffer; a command's range is its
\* signature plus the parameter byte that became its value, a text's range is
\* the slice equal to its bytes; every byte outside the ranges was skipped and
\* is neither printable nor a line terminator; range lengths plus skipped
\* bytes add up to buffer.length.
C1_TokensPartitionBuffer ==
  pc = "done" =>
    /\ Len(ranges) = Len(result)
    /\ \A i \in 1..Len(ranges) :
         /\ 0 <= ranges[i].from
         /\ ranges[i].from < ranges[i].to
         /\ ranges[i].to <= Len(buffer)
         /\ i < Len(ranges) => ranges[i].to <= ranges[i + 1].from
         /\ IsCommandItem(result[i]) =>
              LET sig == COMMANDS[SignatureOf(result[i].command)].bytes IN
              /\ SubSeq(buffer, ranges[i].from + 1, ranges[i].from + Len(sig)) = sig
              /\ IF "value" \in DOMAIN result[i]
                 THEN /\ ranges[i].to = ranges[i].from + Len(sig) + 1
                      /\ result[i].value = At(buffer, ranges[i].from + Len(sig))
                 ELSE ranges[i].to = ranges[i].from + Len(sig)
         /\ IsTextItem(result[i]) =>
              SubSeq(buffer, ranges[i].from + 1, ranges[i].to) = result[i].bytes
    /\ skipped = (0..(Len(buffer) - 1)) \ Covered
    /\ \A p \in skipped :
         LET b == At(buffer, p) IN
         ~((b >= 32 /\ b <= 126) \/ b >= 128) /\ b \notin {10, 13}
    /\ SumOfLengths(ranges) + Cardinality(skipped) = Len(buffer)

\* a returned parse with a command carrying a value, a command without one,
\* a text run and a skipped byte
C1_Witness ==
  /\ pc = "done"
  /\ skipped /= {}
  /\ \E i, j, k \in 1..Len(result) :
       /\ IsCommandItem(result[i]) /\ "value" \in DOMAIN result[i]
       /\ IsCommandItem(result[j]) /\ "value" \notin DOMAIN result[j]
       /\ IsTextItem(result[k]) /\ Len(result[k].bytes) > 1

\* a call of parseNextItem returns in this step
ParseNextItemReturns ==
  /\ pc' = "outer"
  /\ \/ pc = "text"
     \/ pc = "outer" /\ calls' = calls + 1

\* C2: parseBuffer never throws and never stops before it returns; every call
\* of parseNextItem returns a nextIndex greater than the index it was given
\* and at most buffer.length; at most buffer.length calls are made.
C2_ParseBufferTerminates ==
  /\ [](mode = "buffer" =>
          /\ pc \in {"outer", "text", "done"}
          /\ calls <= Len(buffer)
          /\ index <= Len(buffer)
          /\ (pc /= "done" => ENABLED Next))
  /\ [][ParseNextItemReturns => (index' > index /\ index' <= Len(buffer))]_vars

\* parseBuffer has returned after calls that returned a command, a text run,
\* a newline, and no item at all (only a skipped byte)
C2_Witness ==
  /\ mode = "buffer"
  /\ pc = "done"
  /\ calls = Len(result) + 1
  /\ skipped /= {}
  /\ \E i, j, k \in 1..Len(result) :
       /\ IsCommandItem(result[i])
       /\ IsTextItem(result[j]) /\ producedBy[j] /= ""
       /\ IsTextItem(result[k]) /\ producedBy[k] = ""

\* C3: with a signature matching at parseBuffer's cursor, the step emits that
\* command from that position; with a signature matching at parseTextData's
\* cursor, the run ends there (its text, if any, ends immediately before the
\* position) and control returns to the outer loop at that position; and no
\* text token holds a byte of a position where a signature matches or of a
\* command's range.
C3_CommandBeforeText ==
  /\ [][ /\ (pc = "outer" /\ index < Len(buffer) /\ findCommand(buffer, index) /= Null) =>
              /\ Len(result') = Len(result) + 1
              /\ IsCommandItem(result'[Len(result')])
              /\ result'[Len(result')].command = findCommand(buffer, index).name
              /\ ranges'[Len(ranges')].from = index
         /\ (pc = "text" /\ tIndex < Len(buffer) /\ findCommand(buffer, tIndex) /= Null) =>
              /\ pc' = "outer"
              /\ index' = tIndex
              /\ Len(textBytes) > 0 =>
                   /\ Len(result') = Len(result) + 1
                   /\ IsTextItem(result'[Len(result')])
                   /\ ranges'[Len(ranges')].to = tIndex
              /\ Len(textBytes) = 0 => result' = result
       ]_vars
  /\ [](\A i \in 1..Len(result) :
          IsTextItem(result[i]) =>
            /\ \A p \in Positions(ranges[i]) : findCommand(buffer, p) = Null
            /\ \A j \in 1..Len(result) :
                 IsCommandItem(result[j]) =>
                   Positions(ranges[i]) \cap Positions(ranges[j]) = {})

\* printable text, a command matched in the middle of it, printable text again
C3_Witness ==
  /\ Len(result) >= 3
  /\ \E i \in 1..(Len(result) - 2) :
       /\ IsTextItem(result[i]) /\ IsCommandItem(result[i + 1])
       /\ IsTextItem(result[i + 2])
       /\ ranges[i].to = ranges[i + 1].from
       /\ ranges[i + 1].to = ranges[i + 2].from
       /\ isPrintableChar(At(buffer, ranges[i].from))
       /\ isPrintableChar(At(buffer, ranges[i + 2].from))

\* the string is malformed hex: odd length after whitespace stripping, or a
\* character that is not a hex digit
MalformedHex(s) ==
  \/ Len(CleanHex(s)) % 2 /= 0
  \/ \E i \in 1..Len(CleanHex(s)) : ~IsHexDigit(CleanHex(s)[i])

\* C4: parseHexString rejects every malformed hex string with an error before
\* any tokenization: the tokenizer is never entered and nothing is returned.
C4_MalformedHexRejected ==
  (mode = "hex" /\ MalformedHex(hexString)) => pc \in {"hex", "error"}

\* C5: the encoding field of every decoded text token names the decoder that
\* produced its string.
C5_EncodingNamesDecoder ==
  \A i \in 1..Len(result) :
    (IsTextItem(result[i]) /\ producedBy[i] /= "") =>
      result[i].encoding = producedBy[i]

C6_LongRunReached ==
  \E i \in 1..Len(result) :
    /\ IsTextItem(result[i]) /\ Len(result[i].bytes) > 50
    /\ failed[i] = Attempted(encoding)
    /\ Len(result[i].text) = 50

CommandFields == {"type", "command", "description"}
TextFields == {"type", "data", "text", "bytes", "encoding", "description"}

TextShape(item) == DOMAIN item = TextFields /\ item.data = item.text

C10_ReadmeCommandsRecognised ==
  [][ (/\ pc = "outer"
       /\ index + 2 <= Len(buffer)
       /\ <<At(buffer, index), At(buffer, index + 1)>> \in ReadmeSignatures) =>
        /\ Len(result') = Len(result) + 1
        /\ IsCommandItem(result'[Len(result')])
        /\ ranges'[Len(ranges')].from = index
    ]_vars

\* the names of the commands written in data when data consists solely of
\* written commands, and a sequence holding "?" when it does not
RECURSIVE WrittenNames(_)
WrittenNames(data) ==
  IF data = <<>> THEN <<>>
  ELSE LET K == {k \in 1..Len(COMMANDS) :
                   /\ Len(data) >= Len(COMMANDS[k].bytes)
                   /\ SubSeq(data, 1, Len(COMMANDS[k].bytes)) = COMMANDS[k].bytes}
       IN
       IF K = {} THEN <<"?">>
       ELSE LET k == CHOOSE x \in K : TRUE
                n == Len(COMMANDS[k].bytes)
                     + (IF COMMANDS[k].name = "INITIALIZE" THEN 0 ELSE 1)
            IN
            IF Len(data) < n THEN <<"?">>
            ELSE <<COMMANDS[k].name>> \o WrittenNames(SubSeq(data, n + 1, Len(data)))

OnlyCommands(data) ==
  data /= <<>> /\ \A i \in 1..Len(WrittenNames(data)) : WrittenNames(data)[i] /= "?"

\* C11: for a buffer that is a concatenation of registered commands, each
\* written as its signature and one parameter byte when it takes a parameter,
\* parseBuffer returns one command token per written command, in order, and
\* no text token.
C11_CommandsOnlyNoText ==
  (pc = "done" /\ OnlyCommands(buffer)) =>
    /\ Len(result) = Len(WrittenNames(buffer))
    /\ \A i \in 1..Len(result) :
         /\ IsCommandItem(result[i])
         /\ result[i].command = WrittenNames(buffer)[i]

\* ESC a 0A, ESC @ has been parsed: ALIGN with value 10, then INITIALIZE
C11_Witness ==
  /\ pc = "done"
  /\ buffer = <<27, 97, 10, 27, 64>>
  /\ Len(result) = 2
  /\ result[1].command = "ALIGN" /\ result[1].value = 10
  /\ result[2].command = "INITIALIZE"

\* C12: a buffer holding exactly the signature of one of the ten registered
\* commands yields exactly one token, a command with that definition's name;
\* hex 1B40 yields one INITIALIZE command.
C12_SignatureAlone ==
  /\ (pc = "done" /\ \E k \in 1..Len(COMMANDS) : buffer = COMMANDS[k].bytes) =>
       /\ Len(result) = 1
       /\ IsCommandItem(result[1])
       /\ \E k \in 1..Len(COMMANDS) :
            buffer = COMMANDS[k].bytes /\ result[1].command = COMMANDS[k].name
  /\ (mode = "hex" /\ hexString = <<49, 66, 52, 48>> /\ pc = "done") =>
       /\ Len(result) = 1
       /\ IsCommandItem(result[1])
       /\ result[1].command = "INITIALIZE"

\* the signature of the last definition, GS B alone, has been parsed
C12_Witness ==
  /\ pc = "done"
  /\ buffer = <<29, 66>>
  /\ Len(result) = 1
  /\ result[1].command = "BOLD_MODE"

\* hex 1B40 has been parsed
C12_ExampleReached ==
  mode = "hex" /\ hexString = <<49, 66, 52, 48>> /\ pc = "done" /\ Len(result) = 1

-----------------------------------------------------------------------------
(* lib/parser.js: TextFormatter *)

UNDERSCORE == 95
BOLD_OPEN == 12304     \* U+3010, the opening bold marker
BOLD_CLOSE == 12305    \* U+3011, the closing bold marker
CutPaperBlankLines == 6

ALIGN_LEFT == 0
ALIGN_CENTER == 1
ALIGN_RIGHT == 2

\* the literal pushed between the two rules of a paper cut: a space, U+3010,
\* five CJK characters, U+3011, a space
CutMarkerLine == <<32, 12304, 32440, 24352, 20999, 21106, 22788, 12305, 32>>

\* options.lineWidth || DEFAULT_LINE_WIDTH
LineWidthOf(opt) == IF opt = Undefined \/ opt = 0 THEN DEFAULT_LINE_WIDTH ELSE opt

\* CONTROL_CHARS_REGEX: [\x00-\x08\x0b\x0c\x0e-\x1f\x7f-\x9f]
IsControlChar(c) ==
  \/ (c >= 0 /\ c <= 8)
  \/ c = 11 \/ c = 12
  \/ (c >= 14 /\ c <= 31)
  \/ (c >= 127 /\ c <= 159)

\* item.text.replace(CONTROL_CHARS_REGEX, '').replace(/!/g, '')
CleanText(text) == SelectSeq(text, LAMBDA c : ~IsControlChar(c) /\ c /= BANG)

\* CJK_CHARS_REGEX: [一-鿿＀-￯]
IsCJK(c) == (c >= 19968 /\ c <= 40959) \/ (c >= 65280 /\ c <= 65519)

getTextWidthNarrow(text) == Len(text)

RECURSIVE getTextWidth(_)
getTextWidth(text) ==
  IF text = <<>> THEN 0
  ELSE (IF IsCJK(Head(text)) THEN 2 ELSE 1) + getTextWidth(Tail(text))

applyTextStylesUnderlineFirst(text, bold, underline) ==
  LET underlined == IF underline THEN <<UNDERSCORE>> \o text \o <<UNDERSCORE>> ELSE text IN
  IF bold THEN <<BOLD_OPEN>> \o underlined \o <<BOLD_CLOSE>> ELSE underlined

applyTextStyles(text, bold, underline) ==
  LET boldText == IF bold THEN <<BOLD_OPEN>> \o text \o <<BOLD_CLOSE>> ELSE text IN
  IF underline THEN <<UNDERSCORE>> \o boldText \o <<UNDERSCORE>> ELSE boldText

centerPadding(width, textWidth) == Max(0, (width - textWidth) \div 2)

rightPadding(width, textWidth) == Max(0, width - textWidth)

applyAlignmentRightFromTwo(originalText, styledText, align, width) ==
  IF originalText /= <<>> /\ Head(originalText) = SPACE THEN styledText
  ELSE CASE align = ALIGN_CENTER ->
              Rep(SPACE, centerPadding(width, getTextWidth(styledText))) \o styledText
         [] align >= ALIGN_RIGHT ->
              Rep(SPACE, rightPadding(width, getTextWidth(styledText))) \o styledText
         [] OTHER -> styledText

applyAlignmentIgnoringLeadingSpace(originalText, styledText, align, width) ==
  CASE align = ALIGN_CENTER ->
         Rep(SPACE, centerPadding(width, getTextWidth(styledText))) \o styledText
    [] align = ALIGN_RIGHT ->
         Rep(SPACE, rightPadding(width, getTextWidth(styledText))) \o styledText
    [] OTHER -> styledText

applyAlignment(originalText, styledText, align, width) ==
  IF originalText /= <<>> /\ Head(originalText) = SPACE THEN styledText
  ELSE CASE align = ALIGN_CENTER ->
              Rep(SPACE, centerPadding(width, getTextWidth(styledText))) \o styledText
         [] align = ALIGN_RIGHT ->
              Rep(SPACE, rightPadding(width, getTextWidth(styledText))) \o styledText
         [] OTHER -> styledText

formatLine(text, align, bold, underline, width) ==
  applyAlignment(text, applyTextStyles(text, bold, underline), align, width)

\* this.lines after `if (this.currentLine.length > 0) this.addFormattedLine(...)`
Flushed ==
  IF Len(currentLine) > 0
  THEN Append(lines, formatLine(currentLine, currentAlign, isBold, hasUnderline, lineWidth))
  ELSE lines

\* finalized after `if (this.currentLine.length > 0) this.addFormattedLine(...)`
Recorded ==
  IF Len(currentLine) > 0
  THEN Append(finalized, [at |-> Len(lines) + 1, by |-> pos + 1, text |-> currentLine])
  ELSE finalized

\* line.includes('---')
IncludesRule(line) ==
  \E i \in 1..(Len(line) - 2) :
    line[i] = MINUS /\ line[i + 1] = MINUS /\ line[i + 2] = MINUS

CutPaperLinesOneRule(width) ==
  Rep(<<>>, CutPaperBlankLines) \o <<Rep(MINUS, width), CutMarkerLine>>

\* the lines pushed by processCutPaperCommand after the flush
CutPaperLines(width) ==
  Rep(<<>>, CutPaperBlankLines)
    \o <<Rep(MINUS, width), CutMarkerLine, Rep(MINUS, width)>>

RECURSIVE JoinTerminated(_)
JoinTerminated(ls) ==
  IF ls = <<>> THEN <<LF>>
  ELSE IF Len(ls) = 1 THEN ls[1] \o <<LF>>
  ELSE LET half == Len(ls) \div 2 IN
       JoinTerminated(SubSeq(ls, 1, half)) \o JoinTerminated(SubSeq(ls, half + 1, Len(ls)))

RECURSIVE Join(_)
\* lines.join('\n')
Join(ls) ==
  IF ls = <<>> THEN <<>>
  ELSE IF Len(ls) = 1 THEN ls[1]
  ELSE LET half == Len(ls) \div 2 IN
       Join(SubSeq(ls, 1, half)) \o <<LF>> \o Join(SubSeq(ls, half + 1, Len(ls)))

\* item.value, undefined when the item has none
ValueOf(item) == IF "value" \in DOMAIN item THEN item.value ELSE Undefined

CurrentItem == items[pos + 1]

InFormatLoop == fpc = "format" /\ pos < Len(items)

-----------------------------------------------------------------------------
(* One formatAsText pass as a state machine *)

\* the item the tokenizer emits for a registered command with parameter v
ItemOf(name, v) ==
  LET command == COMMANDS[SignatureOf(name)] IN
  Parse(command, IF v = Undefined THEN command.bytes ELSE Append(command.bytes, v), 0)

\* the item the tokenizer emits for an ASCII text run
TextItemOf(text) == createTextItem(text, text, "utf8", "text: " \o ToString(text))

MaxPasses == 3       \* most formatAsText calls made one after another
MaxRepeatLen == 1    \* longest item array that is formatted more than once

\* a sequence that leaves a formatter right-aligned and bold
OtherSequence == <<ItemOf("ALIGN", 2), ItemOf("BOLD", 1), TextItemOf(<<72, 105>>)>>

ReusedFormatter(opts) ==
  [lines |-> <<>>, currentLine |-> <<>>, currentAlign |-> currentAlign,
   isBold |-> isBold, hasUnderline |-> hasUnderline, lineWidth |-> LineWidthOf(opts)]

\* new TextFormatter(options): the fields the constructor sets
NewFormatter(opts) ==
  [lines |-> <<>>, currentLine |-> <<>>, currentAlign |-> ALIGN_LEFT,
   isBold |-> FALSE, hasUnderline |-> FALSE, lineWidth |-> LineWidthOf(opts)]

\* formatAsText(items, options): new TextFormatter(options); the items are the
\* caller's array, or the array parseBuffer returned; after a call has
\* returned, a caller that brought its own array may format it again, or
\* format another one
FormatAsText ==
  /\ \/ /\ fpc = "idle"
        /\ \/ mode = "items" /\ UNCHANGED items
           \/ mode \in {"buffer", "hex"} /\ pc = "done" /\ items' = result
     \/ /\ fpc = "done"
        /\ mode = "items"
        /\ Len(passes) < MaxPasses
        /\ Len(passes[1].items) <= MaxRepeatLen
        /\ items' \in {passes[1].items, OtherSequence}
  /\ fpc' = "format"
  /\ pos' = 0
  /\ LET formatter == NewFormatter(options) IN
       /\ lines' = formatter.lines
       /\ currentLine' = formatter.currentLine
       /\ currentAlign' = formatter.currentAlign
       /\ isBold' = formatter.isBold
       /\ hasUnderline' = formatter.hasUnderline
       /\ lineWidth' = formatter.lineWidth
  /\ finalized' = <<>>
  /\ UNCHANGED <<xvars, pvars, options, output>>

ProcessTextItemBlankLines ==
  /\ InFormatLoop
  /\ CurrentItem.type = "text"
  /\ LET text == CurrentItem.text IN
       IF text = <<>> THEN UNCHANGED <<lines, currentLine, finalized>>
       ELSE IF Head(text) = LF
       THEN /\ lines' = (IF Len(currentLine) > 0 THEN Flushed ELSE Append(lines, <<>>))
            /\ finalized' = Recorded
            /\ currentLine' = <<>>
       ELSE /\ currentLine' = currentLine \o CleanText(text)
            /\ UNCHANGED <<lines, finalized>>
  /\ pos' = pos + 1
  /\ UNCHANGED <<xvars, pvars, options, fpc, items, currentAlign, isBold, hasUnderline,
                 lineWidth, output>>

\* processTextItem
ProcessTextItem ==
  /\ InFormatLoop
  /\ CurrentItem.type = "text"
  /\ LET text == CurrentItem.text IN
       IF text = <<>> THEN UNCHANGED <<lines, currentLine, finalized>>
       ELSE IF Head(text) = LF
       THEN /\ lines' = Flushed
            /\ finalized' = Recorded
            /\ currentLine' = <<>>
       ELSE /\ currentLine' = currentLine \o CleanText(text)
            /\ UNCHANGED <<lines, finalized>>
  /\ pos' = pos + 1
  /\ UNCHANGED <<xvars, pvars, options, fpc, items, currentAlign, isBold, hasUnderline,
                 lineWidth, output>>

IsCommand(name) ==
  InFormatLoop /\ CurrentItem.type = "command" /\ CurrentItem.command = name

\* case 'ALIGN': this.currentAlign = item.value || ALIGN_TYPE.LEFT
ProcessAlign ==
  /\ IsCommand("ALIGN")
  /\ currentAlign' = (IF Truthy(ValueOf(CurrentItem)) THEN ValueOf(CurrentItem)
                      ELSE ALIGN_LEFT)
  /\ pos' = pos + 1
  /\ UNCHANGED <<xvars, pvars, options, fpc, items, lines, currentLine, isBold,
                 hasUnderline, lineWidth, output, finalized>>

\* case 'BOLD', 'BOLD_MODE': this.isBold = item.value > 0
ProcessBold ==
  /\ IsCommand("BOLD") \/ IsCommand("BOLD_MODE")
  /\ isBold' = (ValueOf(CurrentItem) > 0)
  /\ pos' = pos + 1
  /\ UNCHANGED <<xvars, pvars, options, fpc, items, lines, currentLine, currentAlign,
                 hasUnderline, lineWidth, output, finalized>>

\* case 'UNDERLINE': this.hasUnderline = item.value > 0
ProcessUnderline ==
  /\ IsCommand("UNDERLINE")
  /\ hasUnderline' = (ValueOf(CurrentItem) > 0)
  /\ pos' = pos + 1
  /\ UNCHANGED <<xvars, pvars, options, fpc, items, lines, currentLine, currentAlign,
                 isBold, lineWidth, output, finalized>>

ProcessPrintAndFeedKeepsBuffer ==
  /\ IsCommand("PRINT_AND_FEED") \/ IsCommand("LINE_FEED")
  /\ LET feedLines == IF Truthy(ValueOf(CurrentItem)) THEN ValueOf(CurrentItem) ELSE 1
         fed == Flushed \o Rep(<<>>, feedLines - 1)
     IN lines' = IF Len(fed) > 0 /\ IncludesRule(fed[Len(fed)])
                 THEN Append(fed, <<>>)
                 ELSE fed
  /\ finalized' = Recorded
  /\ pos' = pos + 1
  /\ UNCHANGED <<xvars, pvars, options, fpc, items, currentLine, currentAlign, isBold,
                 hasUnderline, lineWidth, output>>

ProcessPrintAndFeedWithoutRuleCheck ==
  /\ IsCommand("PRINT_AND_FEED") \/ IsCommand("LINE_FEED")
  /\ LET feedLines == IF Truthy(ValueOf(CurrentItem)) THEN ValueOf(CurrentItem) ELSE 1
     IN lines' = Flushed \o Rep(<<>>, feedLines - 1)
  /\ finalized' = Recorded
  /\ currentLine' = <<>>
  /\ pos' = pos + 1
  /\ UNCHANGED <<xvars, pvars, options, fpc, items, currentAlign, isBold, hasUnderline,
                 lineWidth, output>>

\* case 'PRINT_AND_FEED', 'LINE_FEED'
ProcessPrintAndFeed ==
  /\ IsCommand("PRINT_AND_FEED") \/ IsCommand("LINE_FEED")
  /\ LET feedLines == IF Truthy(ValueOf(CurrentItem)) THEN ValueOf(CurrentItem) ELSE 1
         fed == Flushed \o Rep(<<>>, feedLines - 1)
     IN lines' = IF Len(fed) > 0 /\ IncludesRule(fed[Len(fed)])
                 THEN Append(fed, <<>>)
                 ELSE fed
  /\ finalized' = Recorded
  /\ currentLine' = <<>>
  /\ pos' = pos + 1
  /\ UNCHANGED <<xvars, pvars, options, fpc, items, currentAlign, isBold, hasUnderline,
                 lineWidth, output>>

ProcessCutPaperResetsFormat ==
  /\ IsCommand("CUT_PAPER")
  /\ lines' = Flushed \o CutPaperLines(lineWidth)
  /\ finalized' = Recorded
  /\ currentLine' = <<>>
  /\ currentAlign' = ALIGN_LEFT
  /\ isBold' = FALSE
  /\ hasUnderline' = FALSE
  /\ pos' = pos + 1
  /\ UNCHANGED <<xvars, pvars, options, fpc, items, lineWidth, output>>

\* case 'CUT_PAPER': processCutPaperCommand
ProcessCutPaper ==
  /\ IsCommand("CUT_PAPER")
  /\ lines' = Flushed \o CutPaperLines(lineWidth)
  /\ finalized' = Recorded
  /\ currentLine' = <<>>
  /\ pos' = pos + 1
  /\ UNCHANGED <<xvars, pvars, options, fpc, items, currentAlign, isBold, hasUnderline,
                 lineWidth, output>>

ProcessInitializeResetFirst ==
  /\ IsCommand("INITIALIZE")
  /\ lines' = (IF Len(currentLine) > 0
               THEN Append(lines, formatLine(currentLine, ALIGN_LEFT, FALSE, FALSE, lineWidth))
               ELSE lines)
  /\ finalized' = Recorded
  /\ currentLine' = <<>>
  /\ currentAlign' = ALIGN_LEFT
  /\ isBold' = FALSE
  /\ hasUnderline' = FALSE
  /\ pos' = pos + 1
  /\ UNCHANGED <<xvars, pvars, options, fpc, items, lineWidth, output>>

\* case 'INITIALIZE': processInitializeCommand, resetFormat
ProcessInitialize ==
  /\ IsCommand("INITIALIZE")
  /\ lines' = Flushed
  /\ finalized' = Recorded
  /\ currentLine' = <<>>
  /\ currentAlign' = ALIGN_LEFT
  /\ isBold' = FALSE
  /\ hasUnderline' = FALSE
  /\ pos' = pos + 1
  /\ UNCHANGED <<xvars, pvars, options, fpc, items, lineWidth, output>>

HandledCommands ==
  {"ALIGN", "BOLD", "BOLD_MODE", "UNDERLINE", "PRINT_AND_FEED", "LINE_FEED",
   "CUT_PAPER", "INITIALIZE"}

\* case 'FONT_SIZE' and default: nothing changes
ProcessOtherCommand ==
  /\ InFormatLoop
  /\ CurrentItem.type = "command"
  /\ CurrentItem.command \notin HandledCommands
  /\ pos' = pos + 1
  /\ UNCHANGED <<xvars, pvars, options, fpc, items, lines, currentLine, currentAlign,
                 isBold, hasUnderline, lineWidth, output, finalized>>

\* after the loop: finalizeLine, then return this.lines.join('\n')
FormatReturn ==
  /\ fpc = "format"
  /\ pos >= Len(items)
  /\ lines' = Flushed
  /\ finalized' = Recorded
  /\ output' = Join(Flushed)
  /\ fpc' = "done"
  /\ passes' = Append(passes, [items |-> items, options |-> options,
                                output |-> Join(Flushed)])
  /\ UNCHANGED <<summary, registry, found, pvars, options, items, pos, currentLine,
                 currentAlign, isBold, hasUnderline, lineWidth>>

SummaryStepTextLength(acc, item) ==
  IF item.type = "command" THEN [acc EXCEPT !.commands = @ + 1]
  ELSE IF item.type = "text"
  THEN [acc EXCEPT !.textBlocks = @ + 1, !.totalBytes = @ + Len(item.text)]
  ELSE acc

\* the body of generateSummary's loop
SummaryStep(acc, item) ==
  IF item.type = "command" THEN [acc EXCEPT !.commands = @ + 1]
  ELSE IF item.type = "text"
  THEN [acc EXCEPT !.textBlocks = @ + 1,
                   !.totalBytes = @ + (IF "bytes" \in DOMAIN item
                                       THEN Len(item.bytes) ELSE 0)]
  ELSE acc

RECURSIVE SummaryLoop(_, _)
SummaryLoop(acc, rest) ==
  IF rest = <<>> THEN acc ELSE SummaryLoop(SummaryStep(acc, Head(rest)), Tail(rest))

generateSummary(parseResult) ==
  SummaryLoop([totalItems |-> Len(parseResult), commands |-> 0, textBlocks |-> 0,
               totalBytes |-> 0], parseResult)

\* the array the caller holds: its own, or the one parseBuffer returned
ParseResult == IF mode = "items" THEN items ELSE result

\* generateReport(parseResult) up to its call of formatAsText(parseResult),
\* which is made without options
GenerateSummary ==
  /\ fpc = "idle"
  /\ summary = <<>>
  /\ options = Undefined
  /\ mode = "items" \/ (mode \in {"buffer", "hex"} /\ pc = "done")
  /\ summary' = generateSummary(ParseResult)
  /\ UNCHANGED <<passes, registry, found, pvars, fvars>>

-----------------------------------------------------------------------------
(* Inputs of the formatter *)

MaxItems == 3      \* longest item array given to formatAsText directly

NewLineItem == createTextItem(<<LF>>, <<LF>>, "utf8", "newline")

\* "Hi", " x", U+4E2D, a newline; ALIGN 1, 2, 3, none; BOLD 1; UNDERLINE 1;
\* PRINT_AND_FEED 2; CUT_PAPER 0; INITIALIZE
FormatItems ==
  { TextItemOf(<<72, 105>>), TextItemOf(<<32, 120>>),
    createTextItem(<<20013>>, <<214, 208>>, "gbk", "text: " \o ToString(<<20013>>)),
    NewLineItem,
    ItemOf("ALIGN", 1), ItemOf("ALIGN", 2), ItemOf("ALIGN", 3),
    ItemOf("ALIGN", Undefined),
    ItemOf("BOLD", 1), ItemOf("UNDERLINE", 1),
    ItemOf("PRINT_AND_FEED", 2), ItemOf("CUT_PAPER", 0),
    ItemOf("INITIALIZE", Undefined) }

\* a command the formatter has no case for, as a caller may pass it
UnknownCommandItem == WithValue(CommandItem("BEEP", "beep"), 1)

\* ALIGN 2, BOLD_MODE 1, UNDERLINE 2, then tokens of every other kind with
\* text between them; and bold, underline and alignment switched off again
\* between two lines
StyledSequences ==
  { << ItemOf("ALIGN", 2), ItemOf("BOLD_MODE", 1), ItemOf("UNDERLINE", 2),
       UnknownCommandItem, ItemOf("FONT_SIZE", 17), ItemOf("LINE_SPACING", 1),
       ItemOf("CHAR_SPACING", 1), TextItemOf(<<72, 105>>), NewLineItem,
       TextItemOf(<<72, 105>>), ItemOf("PRINT_AND_FEED", 1),
       TextItemOf(<<72, 105>>), ItemOf("CUT_PAPER", 0), TextItemOf(<<72, 105>>) >>,
     << ItemOf("ALIGN", 1), ItemOf("BOLD", 1), ItemOf("UNDERLINE", 1),
        TextItemOf(<<72, 105>>), NewLineItem,
        ItemOf("BOLD", 0), ItemOf("UNDERLINE", Undefined), ItemOf("ALIGN", 0),
        TextItemOf(<<72, 105>>), NewLineItem >> }

\* options.lineWidth: absent, 10, 3
LineWidthOptions == {Undefined, 10, 3}

\* GS V 0, ESC d 1; "---", ESC d 0; "Hi", ESC d 3; ESC E 1, "Hi", ESC E 0, LF;
\* "H!i"; 0x80, "H"; 0x8A, "H"
LayoutBuffers ==
  { <<29, 86, 0, 27, 100, 1>>,
    <<45, 45, 45, 27, 100, 0>>,
    <<72, 105, 27, 100, 3>>,
    <<27, 69, 1, 72, 105, 27, 69, 0, 10>>,
    <<72, 33, 105>>,
    <<128, 72>>,
    <<HIGH_8A, 72>> }

\* the buffers and hex strings parsed and then formatted
PipelineBuffers == {<<>>} \cup ScenarioBuffers \cup SignatureBuffers \cup LayoutBuffers
PipelineHexStrings == ScenarioHexStrings

InitFmt ==
  /\ options \in LineWidthOptions
  /\ \/ /\ mode = "items"
        /\ items \in SeqsUpTo(FormatItems, MaxItems) \cup StyledSequences
        /\ buffer = <<>> /\ hexString = <<>> /\ pc = "idle" /\ encoding = "utf8"
     \/ /\ mode = "buffer"
        /\ buffer \in PipelineBuffers
        /\ items = <<>> /\ hexString = <<>> /\ pc = "outer" /\ encoding \in {"utf8", "gbk"}
     \/ /\ mode = "hex"
        /\ hexString \in PipelineHexStrings
        /\ items = <<>> /\ buffer = <<>> /\ pc = "hex" /\ encoding \in {"utf8", "gbk"}
  /\ ParserStart
  /\ FormatterIdle
  /\ CallersIdle

NextFmt ==
  \/ Next
  \/ FormatAsText
  \/ ProcessTextItem
  \/ ProcessAlign
  \/ ProcessBold
  \/ ProcessUnderline
  \/ ProcessPrintAndFeed
  \/ ProcessCutPaper
  \/ ProcessInitialize
  \/ ProcessOtherCommand
  \/ FormatReturn
  \/ GenerateSummary

SpecFmt == InitFmt /\ [][NextFmt]_vars

-----------------------------------------------------------------------------
(* Properties of the formatter *)

\* the number of spaces line begins with
LeadingSpaces(line) ==
  CHOOSE n \in 0..Len(line) :
    /\ \A i \in 1..n : line[i] = SPACE
    /\ (n = Len(line) \/ line[n + 1] /= SPACE)

\* the number of spaces line ends with
TrailingSpaces(line) ==
  CHOOSE n \in 0..Len(line) :
    /\ \A i \in (Len(line) - n + 1)..Len(line) : line[i] = SPACE
    /\ (n = Len(line) \/ line[Len(line) - n] /= SPACE)

Trimmed(line) == SubSeq(line, LeadingSpaces(line) + 1, Len(line) - TrailingSpaces(line))

\* display width: characters in U+4E00-U+9FFF or U+FF00-U+FFEF count 2, others 1
DisplayWidth(text) ==
  Len(text) + Cardinality({i \in 1..Len(text) :
                             \/ (text[i] >= 19968 /\ text[i] <= 40959)
                             \/ (text[i] >= 65280 /\ text[i] <= 65519)})

IsRule(line, width) == Len(line) = width /\ \A i \in 1..Len(line) : line[i] = MINUS

\* the line holds its text centered within width columns
IsCentered(line, width) ==
  LeadingSpaces(line) = Max(0, (width - DisplayWidth(Trimmed(line))) \div 2)

IsCutMarker(line) ==
  Trimmed(line) = <<12304, 32440, 24352, 20999, 21106, 22788, 12305>>

\* the number of lines the flush of a non-empty line buffer adds
FlushCount == IF currentLine /= <<>> THEN 1 ELSE 0

\* the nine lines of a paper cut at the end of ls, with the given marker test
EndsWithCut(ls, width, MarkerOk(_, _)) ==
  LET n == Len(ls) IN
  /\ n >= 9
  /\ \A i \in (n - 8)..(n - 3) : ls[i] = <<>>
  /\ IsRule(ls[n - 2], width)
  /\ IsCutMarker(ls[n - 1]) /\ MarkerOk(ls[n - 1], width)
  /\ IsRule(ls[n], width)

\* a CUT_PAPER step flushes a non-empty line buffer as one line and appends
\* nine lines whose marker line satisfies MarkerOk; 1D5600 parses to one
\* CUT_PAPER command with value 0 and formats to exactly nine such lines
CutPaperStep(MarkerOk(_, _)) ==
  IsCommand("CUT_PAPER") =>
    /\ Len(lines') = Len(lines) + FlushCount + 9
    /\ SubSeq(lines', 1, Len(lines)) = lines
    /\ currentLine /= <<>> =>
         lines'[Len(lines) + 1] =
           formatLine(currentLine, currentAlign, isBold, hasUnderline, lineWidth)
    /\ currentLine' = <<>>
    /\ EndsWithCut(lines', lineWidth, MarkerOk)

CutPaperExample(MarkerOk(_, _)) ==
  (mode = "hex" /\ hexString = <<49, 68, 53, 54, 48, 48>> /\ fpc = "done"
     /\ items = result) =>
    /\ Len(result) = 1
    /\ IsCommandItem(result[1])
    /\ result[1].command = "CUT_PAPER" /\ ValueOf(result[1]) = 0
    /\ Len(lines) = 9
    /\ EndsWithCut(lines, lineWidth, MarkerOk)
    /\ output = Join(lines)

MarkerIsCentered(line, width) == IsCentered(line, width)
MarkerIsLiteral(line, width) == LeadingSpaces(line) = 1 /\ TrailingSpaces(line) = 1

\* C7 as stated: for any line width W, a CUT_PAPER token flushes the line
\* buffer as one line if it is non-empty and appends six blank lines, a rule
\* of W '-', the paper-cut marker centered within W columns and a second rule
\* of W '-'; hex 1D5600 yields one command CUT_PAPER with value 0 and formats
\* to exactly those nine lines.
C7_CutPaperCentered ==
  /\ [][CutPaperStep(MarkerIsCentered)]_vars
  /\ [](CutPaperExample(MarkerIsCentered))

\* C7 amended: the same, except that the marker line is the fixed string of
\* one space, the marker and one space, whatever W is (it is not centered).
C7_CutPaperLiteralMarker ==
  /\ [][CutPaperStep(MarkerIsLiteral)]_vars
  /\ [](CutPaperExample(MarkerIsLiteral))

\* a CUT_PAPER token has just flushed "Hi" and appended its nine lines, W = 10
C7_Witness ==
  /\ fpc = "format" /\ pos = 2 /\ mode = "items"
  /\ items[1].type = "text" /\ items[1].text = <<72, 105>>
  /\ items[2].type = "command" /\ items[2].command = "CUT_PAPER"
  /\ lineWidth = 10
  /\ Len(lines) = 10
  /\ lines[1] = <<72, 105>>
  /\ lines[9] = <<32, 12304, 32440, 24352, 20999, 21106, 22788, 12305, 32>>
  /\ currentLine = <<>>

\* hex 1D5600 has been parsed and formatted
C7_ExampleReached ==
  /\ mode = "hex" /\ hexString = <<49, 68, 53, 54, 48, 48>> /\ fpc = "done"
  /\ items = result
  /\ Len(lines) = 9

\* the step finalizes the line buffer: the new line is lines'[Len(lines) + 1]
FinalizesLine == fpc = "format" /\ currentLine /= <<>> /\ Len(lines') > Len(lines)

\* C8: when a line whose buffered text does not begin with a space is
\* finalized, it is the decorated text, untruncated, after 0 spaces under LEFT,
\* max(0, floor((W - w) / 2)) under CENTER and max(0, W - w) under RIGHT, w
\* being the display width of the decorated text; a RIGHT line with w <= W
\* has display width W; ESC a 1, "Hi" with W = 10 gives four leading spaces.
C8_AlignmentPadding ==
  /\ [][ (FinalizesLine /\ Head(currentLine) /= SPACE) =>
           LET line == lines'[Len(lines) + 1]
               decorated == applyTextStyles(currentLine, isBold, hasUnderline)
               w == DisplayWidth(decorated)
               n == LeadingSpaces(line)
           IN
           /\ SubSeq(line, n + 1, Len(line)) = decorated
           /\ currentAlign = ALIGN_LEFT => n = 0
           /\ currentAlign = ALIGN_CENTER => n = Max(0, (lineWidth - w) \div 2)
           /\ currentAlign = ALIGN_RIGHT => n = Max(0, lineWidth - w)
           /\ (currentAlign = ALIGN_RIGHT /\ w <= lineWidth) =>
                DisplayWidth(line) = lineWidth
       ]_vars
  /\ []((mode = "buffer" /\ buffer = <<27, 97, 1, 72, 105>> /\ options = 10
           /\ fpc = "done" /\ items = result) =>
          lines = << <<32, 32, 32, 32, 72, 105>> >>)

\* a bold line holding a CJK character has been finalized under CENTER with
\* W = 10: display width 4, three leading spaces
C8_Witness ==
  /\ fpc = "done" /\ lineWidth = 10
  /\ currentAlign = ALIGN_CENTER /\ isBold
  /\ lines = << <<32, 32, 32, 12304, 20013, 12305>> >>

\* ESC a 1, "Hi" has been parsed and formatted with W = 10
C8_ExampleReached ==
  /\ mode = "buffer" /\ buffer = <<27, 97, 1, 72, 105>> /\ options = 10
  /\ fpc = "done" /\ items = result /\ Len(lines) = 1

\* the step is a call of formatAsText
StartsPass == fpc /= "format" /\ fpc' = "format"

\* C14: formatting is deterministic and carries no state between passes: any
\* two passes over the same token sequence with the same options, whatever
\* passes ran before or between them, return the same string, and every pass
\* starts from a formatter of its own, with no lines, an empty line buffer,
\* LEFT alignment and bold and underline off.
C14_FormatDeterministic ==
  /\ [](\A i, j \in 1..Len(passes) :
          (passes[i].items = passes[j].items /\ passes[i].options = passes[j].options)
            => passes[i].output = passes[j].output)
  /\ [][ StartsPass =>
           /\ lines' = <<>> /\ currentLine' = <<>> /\ pos' = 0
           /\ currentAlign' = ALIGN_LEFT /\ ~isBold' /\ ~hasUnderline'
       ]_vars

\* "Hi" has been formatted, then a sequence that ends right-aligned and bold,
\* then "Hi" again, with W = 10: the first and third passes returned "Hi"
C14_Witness ==
  /\ Len(passes) = 3 /\ options = 10
  /\ passes[1].items = <<TextItemOf(<<72, 105>>)>>
  /\ passes[2].items = OtherSequence
  /\ passes[3].items = passes[1].items
  /\ passes[2].output = <<32, 32, 32, 32, 32, 32, 12304, 72, 105, 12305>>
  /\ passes[3].output = <<72, 105>>

\* the length of the bytes field of tokens[i] if it is a Text token, else 0
TextBytesAt(tokens, i) ==
  IF tokens[i].type = "text" /\ "bytes" \in DOMAIN tokens[i]
  THEN Len(tokens[i].bytes) ELSE 0

RECURSIVE TextBytesUpTo(_, _)
\* the sum of TextBytesAt over the first n tokens
TextBytesUpTo(tokens, n) ==
  IF n = 0 THEN 0 ELSE TextBytesUpTo(tokens, n - 1) + TextBytesAt(tokens, n)

\* C15: the summary of a token sequence has totalItems = the number of
\* tokens, commands = the number of Command tokens, textBlocks = the number
\* of Text tokens and totalBytes = the sum of the lengths of the bytes fields
\* of the Text tokens; for a sequence produced by parseBuffer, commands +
\* textBlocks = totalItems and totalBytes <= the buffer's length; computing
\* the summary leaves the sequence as it was.
C15_SummaryCounts ==
  [][ summary' /= summary =>
        LET tokens == ParseResult IN
        /\ summary'.totalItems = Len(tokens)
        /\ summary'.commands =
             Cardinality({i \in 1..Len(tokens) : tokens[i].type = "command"})
        /\ summary'.textBlocks =
             Cardinality({i \in 1..Len(tokens) : tokens[i].type = "text"})
        /\ summary'.totalBytes = TextBytesUpTo(tokens, Len(tokens))
        /\ mode \in {"buffer", "hex"} =>
             /\ summary'.commands + summary'.textBlocks = summary'.totalItems
             /\ summary'.totalBytes <= Len(buffer)
        /\ UNCHANGED <<items, result, buffer>>
    ]_vars

\* ALIGN 1, U+4E2D (two GBK bytes), "Hi" has been summarized: three tokens,
\* one command, two text blocks, four bytes
C15_Witness ==
  /\ mode = "items"
  /\ Len(items) = 3
  /\ items[1] = ItemOf("ALIGN", 1)
  /\ items[2].type = "text" /\ items[2].bytes = <<214, 208>>
  /\ items[3] = TextItemOf(<<72, 105>>)
  /\ summary = [totalItems |-> 3, commands |-> 1, textBlocks |-> 2, totalBytes |-> 4]

\* the tokens of ESC a 1, "Hi" have been summarized: two of five bytes are text
C15_PipelineReached ==
  /\ mode = "buffer" /\ buffer = <<27, 97, 1, 72, 105>>
  /\ summary = [totalItems |-> 2, commands |-> 1, textBlocks |-> 1, totalBytes |-> 2]

\* C16: parseBuffer returns an empty token sequence for an empty buffer, and
\* formatting an empty token sequence returns the empty string.
C16_EmptyInEmptyOut ==
  /\ (mode = "buffer" /\ buffer = <<>> /\ pc = "done") => (result = <<>> /\ calls = 0)
  /\ \A i \in 1..Len(passes) : passes[i].items = <<>> => passes[i].output = <<>>

\* an empty buffer has been parsed and the tokens returned have been formatted
C16_Witness ==
  /\ mode = "buffer" /\ buffer = <<>> /\ pc = "done" /\ result = <<>>
  /\ fpc = "done" /\ Len(passes) = 1
  /\ passes[1].items = <<>> /\ passes[1].output = <<>> /\ output = <<>>

\* a caller's empty array has been formatted
C16_EmptyArrayReached ==
  /\ mode = "items" /\ fpc = "done" /\ items = <<>> /\ lines = <<>> /\ output = <<>>

-----------------------------------------------------------------------------
(* Properties of the tokenizer, continued *)

\* a signature matches at parseBuffer's cursor
CommandAtCursor == pc = "outer" /\ index < Len(buffer) /\ findCommand(buffer, index) /= Null

\* C17: when a registered signature matches at the cursor, the Command token
\* consumes the signature and exactly one further byte if and only if the
\* command takes a parameter and a byte follows the signature; that byte is
\* the token's value whatever it is, so no token starts at its position;
\* INITIALIZE consumes its signature only; hex 1B610148656C6C6F yields
\* Command ALIGN with value 1 and then Text "Hello".
C17_OneParameterByte ==
  /\ [][ CommandAtCursor =>
           LET command == findCommand(buffer, index)
               after == index + Len(command.bytes)
               takes == TakesParameter(command.name) /\ after < Len(buffer)
               token == result'[Len(result')]
           IN
           /\ Len(result') = Len(result) + 1
           /\ token.type = "command" /\ token.command = command.name
           /\ index' = after + (IF takes THEN 1 ELSE 0)
           /\ takes => ("value" \in DOMAIN token /\ token.value = At(buffer, after))
           /\ ~takes => "value" \notin DOMAIN token
       ]_vars
  /\ [](\A i, j \in 1..Len(result) :
          (result[i].type = "command" /\ "value" \in DOMAIN result[i])
            => ranges[j].from /= ranges[i].to - 1)
  /\ []((mode = "hex" /\ pc = "done"
           /\ hexString = <<49, 66, 54, 49, 48, 49, 52, 56, 54, 53, 54, 67, 54, 67, 54, 70>>) =>
          /\ Len(result) = 2
          /\ result[1].type = "command" /\ result[1].command = "ALIGN"
          /\ result[1].value = 1
          /\ result[2].type = "text" /\ result[2].text = <<72, 101, 108, 108, 111>>)

\* ESC a followed by a line feed has been parsed: one ALIGN token with value
\* 0x0A over all three bytes, and no newline token
C17_Witness ==
  /\ mode = "buffer" /\ buffer = <<ESC, LOWER_A, LF>> /\ pc = "done"
  /\ Len(result) = 1
  /\ result[1].command = "ALIGN" /\ result[1].value = LF
  /\ ranges[1] = [from |-> 0, to |-> 3]

\* hex 1B610148656C6C6F has been parsed
C17_ExampleReached ==
  /\ mode = "hex" /\ pc = "done" /\ Len(result) = 2
  /\ hexString = <<49, 66, 54, 49, 48, 49, 52, 56, 54, 53, 54, 67, 54, 67, 54, 70>>

\* ESC @ followed by ESC @ has been parsed: INITIALIZE took two bytes each time
C17_InitializeReached ==
  /\ mode = "buffer" /\ buffer = <<ESC, AT_SIGN, ESC, AT_SIGN>> /\ pc = "done"
  /\ Len(result) = 2
  /\ ranges[1] = [from |-> 0, to |-> 2] /\ ranges[2] = [from |-> 2, to |-> 4]

\* position p holds the parameter byte of a Command token
IsParameterPosition(p) ==
  \E i \in 1..Len(result) :
    /\ result[i].type = "command" /\ "value" \in DOMAIN result[i]
    /\ ranges[i].to - 1 = p

\* the tokens whose range of the buffer holds position p
TokensAt(p) == {j \in 1..Len(result) : ranges[j].from <= p /\ p < ranges[j].to}

\* parseTextData's cursor is at a line terminator after a non-empty run
TerminatorAfterRun ==
  /\ pc = "text" /\ tIndex < Len(buffer)
  /\ isNewLine(At(buffer, tIndex)) /\ Len(textBytes) > 0

\* C18: every 0x0A or 0x0D byte that is not a command's parameter yields
\* exactly one Text token, with text "\n" and that single byte as its bytes;
\* a non-empty run stops before the terminator without consuming it and is
\* emitted as its own Text token first; N terminators in a row yield N
\* newline tokens.
C18_OneNewlineTokenPerTerminator ==
  /\ [](pc = "done" =>
          \A p \in 0..(Len(buffer) - 1) :
            (isNewLine(At(buffer, p)) /\ ~IsParameterPosition(p)) =>
              /\ Cardinality(TokensAt(p)) = 1
              /\ \A j \in TokensAt(p) :
                   /\ result[j].type = "text"
                   /\ result[j].text = <<LF>>
                   /\ result[j].bytes = <<At(buffer, p)>>
                   /\ ranges[j] = [from |-> p, to |-> p + 1])
  /\ [][ TerminatorAfterRun =>
           /\ pc' = "outer" /\ index' = tIndex
           /\ Len(result') = Len(result) + 1
           /\ result'[Len(result')].type = "text"
           /\ result'[Len(result')].bytes = textBytes
           /\ ranges'[Len(result')].to = tIndex
       ]_vars

\* "A", CR, LF has been parsed: the run "A", then one newline token for the
\* CR and one for the LF
C18_Witness ==
  /\ mode = "buffer" /\ buffer = <<65, 13, 10>> /\ pc = "done"
  /\ Len(result) = 3
  /\ result[1].bytes = <<65>>
  /\ result[2].text = <<LF>> /\ result[2].bytes = <<CR>>
  /\ result[3].text = <<LF>> /\ result[3].bytes = <<LF>>

\* four line feeds have been parsed into four newline tokens
C18_FourTerminatorsReached ==
  /\ buffer = <<LF, LF, LF, LF>> /\ pc = "done" /\ Len(result) = 4
  /\ \A j \in 1..4 : result[j].text = <<LF>> /\ ranges[j] = [from |-> j - 1, to |-> j]

-----------------------------------------------------------------------------
(* Properties of the formatter, continued *)

\* C19 as stated: in every state of a format pass, after any sequence of
\* tokens (ALIGN tokens with any parameter byte or none included), the
\* formatter's current alignment is one of LEFT, CENTER, RIGHT.
C19_AlignmentInEnum ==
  currentAlign \in {ALIGN_LEFT, ALIGN_CENTER, ALIGN_RIGHT}

\* what the formatter does keep: the current alignment is LEFT or the
\* parameter byte of an ALIGN token, whatever that byte is
C19_AlignmentIsLeftOrParameter ==
  \/ currentAlign = ALIGN_LEFT
  \/ \E i \in 1..Len(items) :
       /\ items[i].type = "command" /\ items[i].command = "ALIGN"
       /\ currentAlign = ValueOf(items[i])

\* ESC a 3 has been parsed and formatted: the formatter's alignment is 3
C19_UnknownStored ==
  /\ mode = "buffer" /\ buffer = <<ESC, LOWER_A, 3>> /\ fpc = "done"
  /\ currentAlign = 3

\* the tokens processed so far that set the alignment
AlignSetters ==
  {i \in 1..pos : /\ items[i].type = "command"
                  /\ items[i].command \in {"ALIGN", "INITIALIZE"}}

\* the last of them is an ALIGN token whose parameter is absent or not 0, 1, 2
UnknownAlignInForce ==
  /\ AlignSetters /= {}
  /\ LET last == CHOOSE i \in AlignSetters : \A j \in AlignSetters : j <= i IN
       /\ items[last].command = "ALIGN"
       /\ ValueOf(items[last]) \notin {0, 1, 2}

\* C20: after an ALIGN token whose parameter is absent or not 0, 1 or 2,
\* every line finalized before the next ALIGN or INITIALIZE is rendered as it
\* would be under LEFT: it is the decorated text with no padding added.
C20_UnknownAlignRendersLeft ==
  [][ (FinalizesLine /\ UnknownAlignInForce) =>
        LET line == lines'[Len(lines) + 1] IN
        /\ line = formatLine(currentLine, ALIGN_LEFT, isBold, hasUnderline, lineWidth)
        /\ line = applyTextStyles(currentLine, isBold, hasUnderline)
    ]_vars

\* ALIGN 2, ALIGN 3, "Hi" has been formatted with W = 10: the line is "Hi"
C20_Witness ==
  /\ mode = "items" /\ fpc = "done" /\ lineWidth = 10
  /\ items = <<ItemOf("ALIGN", 2), ItemOf("ALIGN", 3), TextItemOf(<<72, 105>>)>>
  /\ pos = 3 /\ UnknownAlignInForce
  /\ lines = << <<72, 105>> >>

\* ALIGN 1, ALIGN with no parameter, "Hi" has been formatted with W = 10
C20_AbsentReached ==
  /\ mode = "items" /\ fpc = "done" /\ lineWidth = 10
  /\ items = <<ItemOf("ALIGN", 1), ItemOf("ALIGN", Undefined), TextItemOf(<<72, 105>>)>>
  /\ pos = 3 /\ UnknownAlignInForce
  /\ lines = << <<72, 105>> >>

\* C21: a PRINT_AND_FEED token with feed count n finalizes the line buffer
\* as one line if it is non-empty and empties it, then appends n - 1 blank
\* lines when n > 1 and none when n is 0, 1 or absent, then appends one more
\* blank line if and only if the last line at that moment contains '---'.
C21_PrintAndFeed ==
  [][ IsCommand("PRINT_AND_FEED") =>
        LET n == ValueOf(CurrentItem)
            flushedLine ==
              IF currentLine /= <<>>
              THEN <<formatLine(currentLine, currentAlign, isBold, hasUnderline, lineWidth)>>
              ELSE <<>>
            fed == lines \o flushedLine \o Rep(<<>>, IF n > 1 THEN n - 1 ELSE 0)
            afterRule == fed /= <<>> /\ IncludesRule(fed[Len(fed)])
        IN
        /\ lines' = fed \o (IF afterRule THEN << <<>> >> ELSE <<>>)
        /\ currentLine' = <<>>
    ]_vars

\* GS V 0, ESC d 1 has been parsed and formatted with W = 10: the nine lines
\* of the paper cut, the last of them a rule, and one blank line after it
C21_Witness ==
  /\ mode = "buffer" /\ buffer = <<29, 86, 0, 27, 100, 1>> /\ fpc = "done"
  /\ items = result /\ lineWidth = 10
  /\ Len(lines) = 10
  /\ lines[9] = Rep(MINUS, 10)
  /\ lines[10] = <<>>

\* "Hi", ESC d 3 has been parsed and formatted: "Hi" and two blank lines
C21_FeedThreeReached ==
  /\ mode = "buffer" /\ buffer = <<72, 105, 27, 100, 3>> /\ fpc = "done"
  /\ items = result
  /\ lines = << <<72, 105>>, <<>>, <<>> >>

\* "---", ESC d 0 has been parsed and formatted: the text line, which holds a
\* rule marker, and one blank line
C21_TextRuleReached ==
  /\ mode = "buffer" /\ buffer = <<45, 45, 45, 27, 100, 0>> /\ fpc = "done"
  /\ items = result
  /\ lines = << <<45, 45, 45>>, <<>> >>

\* C22: an INITIALIZE token first finalizes the non-empty line buffer under
\* the alignment and the emphasis flags in force before the reset, and only
\* then resets: afterwards the buffer is empty, the alignment is LEFT, bold
\* and underline are false, and at most that one line has been added.
C22_InitializeFlushesThenResets ==
  [][ IsCommand("INITIALIZE") =>
        /\ lines' =
             (IF currentLine /= <<>>
              THEN Append(lines, formatLine(currentLine, currentAlign, isBold,
                                            hasUnderline, lineWidth))
              ELSE lines)
        /\ Len(lines') <= Len(lines) + 1
        /\ currentLine' = <<>>
        /\ currentAlign' = ALIGN_LEFT
        /\ isBold' = FALSE
        /\ hasUnderline' = FALSE
    ]_vars

\* ALIGN 2, "Hi", INITIALIZE has been formatted with W = 10: "Hi" was
\* finalized right-aligned, and the alignment is LEFT again
C22_Witness ==
  /\ mode = "items" /\ fpc = "format" /\ pos = 3 /\ lineWidth = 10
  /\ items = <<ItemOf("ALIGN", 2), TextItemOf(<<72, 105>>), ItemOf("INITIALIZE", Undefined)>>
  /\ lines = << <<32, 32, 32, 32, 32, 32, 32, 32, 72, 105>> >>
  /\ currentLine = <<>> /\ currentAlign = ALIGN_LEFT

\* BOLD 1, "Hi", INITIALIZE has been formatted: "Hi" was finalized bold, and
\* bold is off again
C22_BoldReached ==
  /\ mode = "items" /\ fpc = "format" /\ pos = 3
  /\ items = <<ItemOf("BOLD", 1), TextItemOf(<<72, 105>>), ItemOf("INITIALIZE", Undefined)>>
  /\ lines = << <<BOLD_OPEN, 72, 105, BOLD_CLOSE>> >>
  /\ currentLine = <<>> /\ isBold = FALSE

\* the token being processed is a Text token
IsText == InFormatLoop /\ CurrentItem.type = "text"

\* the token being processed is a newline Text token
IsNewlineText == IsText /\ CurrentItem.text = <<LF>>

\* the token sequence holds no PRINT_AND_FEED and no CUT_PAPER token
NoFeedNoCut ==
  \A i \in 1..Len(items) :
    items[i].type = "command" => items[i].command \notin {"PRINT_AND_FEED", "CUT_PAPER"}

C23_LeadingNewlinesReached ==
  /\ mode = "items" /\ fpc = "done"
  /\ items = <<NewLineItem, NewLineItem, TextItemOf(<<72, 105>>)>>
  /\ lines = << <<72, 105>> >>

\* the token being processed is a Text token other than a newline
IsOrdinaryText == IsText /\ CurrentItem.text /= <<LF>>

\* the characters removed from ordinary text: 0x00-0x08, 0x0B-0x0C,
\* 0x0E-0x1F, 0x7F-0x9F and '!'
RemovedChars == (0..8) \cup {11, 12} \cup (14..31) \cup (127..159) \cup {33}

Cleaned(text) == SelectSeq(text, LAMBDA c : c \notin RemovedChars)

RECURSIVE CleanedUpTo(_)
\* the cleaned contents of the ordinary Text tokens among the first n tokens,
\* concatenated in token order
CleanedUpTo(n) ==
  IF n = 0 THEN <<>>
  ELSE CleanedUpTo(n - 1) \o
       (IF items[n].type = "text" /\ items[n].text /= <<LF>>
        THEN Cleaned(items[n].text) ELSE <<>>)

RECURSIVE FinalizedUpTo(_)
\* the buffered texts of the first n finalized text lines, concatenated
FinalizedUpTo(n) ==
  IF n = 0 THEN <<>> ELSE FinalizedUpTo(n - 1) \o finalized[n].text

\* line is text with nothing but padding and decoration around it
IsDecorationOf(line, text) ==
  \E k \in 0..(Len(line) - Len(text)) :
    /\ SubSeq(line, k + 1, k + Len(text)) = text
    /\ \A i \in 1..k : line[i] \in {SPACE, UNDERSCORE, BOLD_OPEN}
    /\ \A i \in (k + Len(text) + 1)..Len(line) : line[i] \in {BOLD_CLOSE, UNDERSCORE}

\* C24 as stated: an ordinary Text token is cleaned of control characters and '!' and
\* appended to the line buffer, with no line break; no buffered text is lost:
\* throughout a pass the texts of the finalized text lines, in order, and
\* then the line buffer make up the cleaned contents of the ordinary Text
\* tokens processed so far, in token order, and when the pass has ended the
\* buffer has been flushed and the finalized text lines alone make up the
\* cleaned contents of all of them; each such line is its text with only
\* padding and decoration around it; the formatted text is non-empty
\* whenever some Text token has non-empty cleaned content.
C24_NoTextLost ==
  /\ [][ IsOrdinaryText =>
           /\ currentLine' = currentLine \o Cleaned(CurrentItem.text)
           /\ lines' = lines
       ]_vars
  /\ [](fpc = "format" => FinalizedUpTo(Len(finalized)) \o currentLine = CleanedUpTo(pos))
  /\ [](fpc = "done" =>
          /\ FinalizedUpTo(Len(finalized)) = CleanedUpTo(Len(items))
          /\ CleanedUpTo(Len(items)) /= <<>> => output /= <<>>)
  /\ [](fpc \in {"format", "done"} =>
          \A i \in 1..Len(finalized) :
            /\ finalized[i].at \in 1..Len(lines)
            /\ IsDecorationOf(lines[finalized[i].at], finalized[i].text))

\* "Hi", " x" and a newline have been formatted: one line, "Hi x"
C24_Witness ==
  /\ mode = "items" /\ fpc = "done"
  /\ items = <<TextItemOf(<<72, 105>>), TextItemOf(<<32, 120>>), NewLineItem>>
  /\ lines = << <<72, 105, 32, 120>> >>
  /\ finalized = << [at |-> 1, by |-> 3, text |-> <<72, 105, 32, 120>>] >>

\* "H!i" has been parsed and formatted: the line is "Hi"
C24_CleanedReached ==
  /\ mode = "buffer" /\ buffer = <<72, 33, 105>> /\ fpc = "done" /\ items = result
  /\ lines = << <<72, 105>> >>

\* 0x80, "H" has been decoded as ASCII into NUL, "H" and formatted: the line
\* is "H"
C24_ControlRemovedReached ==
  /\ mode = "buffer" /\ buffer = <<128, 72>> /\ fpc = "done" /\ items = result
  /\ Len(items) = 1 /\ items[1].text = <<0, 72>>
  /\ lines = << <<72>> >>

\* the hex string of the basic test, 1B401B610148656C6C6F20576F726C640A, has
\* been parsed as a buffer and formatted by generateReport: centered
\* "Hello World"
C24_BasicTestReached ==
  /\ mode = "buffer" /\ fpc = "done" /\ items = result /\ options = Undefined
  /\ buffer = <<27, 64, 27, 97, 1, 72, 101, 108, 108, 111, 32, 87, 111, 114, 108, 100, 10>>
  /\ summary /= <<>>
  /\ output = Rep(SPACE, 18) \o <<72, 101, 108, 108, 111, 32, 87, 111, 114, 108, 100>>

\* the token being processed is a Text token the formatter does not take for
\* a newline: its text does not begin with a line feed
IsAppendedText == IsText /\ CurrentItem.text /= <<>> /\ Head(CurrentItem.text) /= LF

RECURSIVE AppendedUpTo(_)
\* the cleaned contents of such tokens among the first n tokens, in order
AppendedUpTo(n) ==
  IF n = 0 THEN <<>>
  ELSE AppendedUpTo(n - 1) \o
       (IF items[n].type = "text" /\ items[n].text /= <<>> /\ Head(items[n].text) /= LF
        THEN Cleaned(items[n].text) ELSE <<>>)

\* what the formatter does keep: the text of every Text token that does not
\* begin with a line feed
C24_TextKeptUnlessLineFeedFirst ==
  /\ [][ IsAppendedText =>
           /\ currentLine' = currentLine \o Cleaned(CurrentItem.text)
           /\ lines' = lines
       ]_vars
  /\ [](fpc = "format" => FinalizedUpTo(Len(finalized)) \o currentLine = AppendedUpTo(pos))
  /\ [](fpc = "done" => FinalizedUpTo(Len(finalized)) = AppendedUpTo(Len(items)))

\* 0x8A, "H" has been decoded as ASCII into LF, "H" and formatted: the token
\* was taken for a newline and the formatted text is empty
C24_TextLostReached ==
  /\ mode = "buffer" /\ buffer = <<HIGH_8A, 72>> /\ fpc = "done" /\ items = result
  /\ Len(items) = 1 /\ items[1].text = <<LF, 72>> /\ items[1].bytes = <<HIGH_8A, 72>>
  /\ lines = <<>> /\ output = <<>>

-----------------------------------------------------------------------------
(* Text that begins with a space *)

\* C25: when the line buffer begins with a space, the finalized line is
\* exactly the decorated text, with no padding, under LEFT, CENTER, RIGHT and
\* any stored alignment value, and for every line width.
C25_LeadingSpaceSkipsAlignment ==
  [][ (FinalizesLine /\ Head(currentLine) = SPACE) =>
        lines'[Len(lines) + 1] = applyTextStyles(currentLine, isBold, hasUnderline)
    ]_vars

\* " x" has been finalized under RIGHT with W = 10: the line is " x", where a
\* text without the leading space would have been moved right
C25_Witness ==
  /\ fpc = "done" /\ lineWidth = 10 /\ currentAlign = ALIGN_RIGHT
  /\ lines = << <<32, 120>> >>

\* bold " x" has been finalized under CENTER with W = 10
C25_CenterBoldReached ==
  /\ fpc = "done" /\ lineWidth = 10 /\ currentAlign = ALIGN_CENTER /\ isBold
  /\ lines = << <<12304, 32, 120, 12305>> >>

-----------------------------------------------------------------------------
(* Alignment, bold and underline between the tokens that set them *)

\* the item is a Text token, PRINT_AND_FEED, CUT_PAPER, FONT_SIZE, LINE_SPACING,
\* CHAR_SPACING or a command the formatter does not know
KeepsFormat(item) ==
  \/ item.type = "text"
  \/ /\ item.type = "command"
     /\ item.command \notin {"ALIGN", "BOLD", "BOLD_MODE", "UNDERLINE", "INITIALIZE"}

RECURSIVE AlignAfter(_)
\* the parameter of the last ALIGN among the first n items, LEFT when it is
\* absent or 0, when an INITIALIZE came later, or when there is none
AlignAfter(n) ==
  IF n = 0 THEN ALIGN_LEFT
  ELSE IF items[n].type = "command" /\ items[n].command = "ALIGN"
  THEN (IF Truthy(ValueOf(items[n])) THEN ValueOf(items[n]) ELSE ALIGN_LEFT)
  ELSE IF items[n].type = "command" /\ items[n].command = "INITIALIZE" THEN ALIGN_LEFT
  ELSE AlignAfter(n - 1)

RECURSIVE FlagAfter(_, _)
\* (parameter > 0) of the last command among the first n items whose name is
\* in names, FALSE when an INITIALIZE came later or when there is none
FlagAfter(names, n) ==
  IF n = 0 THEN FALSE
  ELSE IF items[n].type = "command" /\ items[n].command \in names
  THEN ValueOf(items[n]) > 0
  ELSE IF items[n].type = "command" /\ items[n].command = "INITIALIZE" THEN FALSE
  ELSE FlagAfter(names, n - 1)

\* C26: a step that processes a Text token, PRINT_AND_FEED, CUT_PAPER,
\* FONT_SIZE, LINE_SPACING, CHAR_SPACING or an unknown command, and the flush
\* at the end of the pass, leave alignment, bold and underline as they are; so
\* at every point of a pass each of the three is what the last ALIGN, BOLD or
\* BOLD_MODE, UNDERLINE token before it set, or the initial value when an
\* INITIALIZE came after that token or there was none, however many lines
\* were finalized in between.
C26_FormatPersists ==
  /\ [][ (fpc = "format" /\ (InFormatLoop => KeepsFormat(CurrentItem))) =>
          UNCHANGED <<currentAlign, isBold, hasUnderline>> ]_vars
  /\ [](fpc \in {"format", "done"} =>
          /\ currentAlign = AlignAfter(pos)
          /\ isBold = FlagAfter({"BOLD", "BOLD_MODE"}, pos)
          /\ hasUnderline = FlagAfter({"UNDERLINE"}, pos))

\* RIGHT, bold and underline, set by the first three tokens, are still in
\* force after an unknown command, FONT_SIZE, LINE_SPACING, CHAR_SPACING,
\* Text tokens, a newline, PRINT_AND_FEED and CUT_PAPER, and four text lines
\* were finalized under them
C26_Witness ==
  /\ fpc = "done" /\ Len(items) = 14 /\ items[4] = UnknownCommandItem
  /\ currentAlign = ALIGN_RIGHT /\ isBold /\ hasUnderline
  /\ Len(finalized) = 4
  /\ \A k \in 1..4 :
       IsDecorationOf(lines[finalized[k].at], <<UNDERSCORE, 12304, 72, 105, 12305, UNDERSCORE>>)

\* the flags were switched off between two lines: the first line is
\* decorated and centered, the second is plain
C26_SwitchedOffReached ==
  /\ fpc = "done" /\ Len(items) = 10 /\ lineWidth = 10
  /\ lines = << <<32, 32, UNDERSCORE, 12304, 72, 105, 12305, UNDERSCORE>>, <<72, 105>> >>

-----------------------------------------------------------------------------
(* The lines of a pass *)

\* the item makes the formatter finalize the line buffer: a newline Text
\* token, PRINT_AND_FEED (or LINE_FEED), CUT_PAPER, INITIALIZE
FinalizingItem(item) ==
  \/ item.type = "text" /\ item.text /= <<>> /\ Head(item.text) = LF
  \/ /\ item.type = "command"
     /\ item.command \in {"PRINT_AND_FEED", "LINE_FEED", "CUT_PAPER", "INITIALIZE"}

\* C27: during a pass every step leaves the lines it found as a prefix of the
\* new lines; the finalized buffers stand in lines in the order of the
\* tokens that finalized them, one per token at most, each as its padded and
\* decorated text; and after every step that processes a newline Text token,
\* PRINT_AND_FEED, CUT_PAPER or INITIALIZE the line buffer is empty.
C27_AppendOnly ==
  /\ [][ fpc = "format" => IsPrefix(lines, lines') ]_vars
  /\ [](fpc \in {"format", "done"} =>
          /\ \A k \in 1..Len(finalized) :
               /\ finalized[k].at \in 1..Len(lines)
               /\ finalized[k].by \in 1..(Len(items) + 1)
               /\ IsDecorationOf(lines[finalized[k].at], finalized[k].text)
          /\ \A j, k \in 1..Len(finalized) :
               j < k => /\ finalized[j].at < finalized[k].at
                        /\ finalized[j].by < finalized[k].by)
  /\ [][ (InFormatLoop /\ FinalizingItem(CurrentItem)) => currentLine' = <<>> ]_vars

\* CUT_PAPER has just finalized the third "Hi" of a pass: the buffer is empty,
\* the three lines finalized by the newline, PRINT_AND_FEED and CUT_PAPER
\* stand in token order, and the lines of the cut follow the third
C27_Witness ==
  /\ fpc = "format" /\ Len(items) = 14 /\ pos = 13
  /\ currentLine = <<>>
  /\ Len(finalized) = 3
  /\ <<finalized[1].by, finalized[2].by, finalized[3].by>> = <<9, 11, 13>>
  /\ Len(lines) > finalized[3].at

\* INITIALIZE has just finalized a non-empty buffer and emptied it
C27_InitializeReached ==
  /\ fpc = "format" /\ pos > 0
  /\ items[pos].type = "command" /\ items[pos].command = "INITIALIZE"
  /\ Len(finalized) > 0 /\ finalized[Len(finalized)].by = pos
  /\ currentLine = <<>>

-----------------------------------------------------------------------------
(* Bold and underline *)

\* JS `v > 0` for a parameter byte or undefined
Positive(v) == v /= Undefined /\ v > 0

\* line ends with text between the bold markers when bold, and that between
\* underscores when underline, and has only spaces before
IsStyled(line, text, bold, underline) ==
  LET b == IF bold THEN 1 ELSE 0
      u == IF underline THEN 1 ELSE 0
      n == Len(line) - (Len(text) + 2 * b + 2 * u)
  IN /\ n >= 0
     /\ \A i \in 1..n : line[i] = SPACE
     /\ underline => line[n + 1] = UNDERSCORE /\ line[Len(line)] = UNDERSCORE
     /\ bold => line[n + u + 1] = BOLD_OPEN /\ line[Len(line) - u] = BOLD_CLOSE
     /\ SubSeq(line, n + u + b + 1, Len(line) - u - b) = text

\* C28: a BOLD or BOLD_MODE step leaves bold = (parameter > 0) and an
\* UNDERLINE step leaves underline = (parameter > 0), false when the
\* parameter is absent; a finalized line is the whole buffered text inside
\* the bold pair when bold is set at that moment, and that inside underscores
\* when underline is set at that moment, whatever the flags were when the
\* text arrived; ESC E 1, "Hi", ESC E 0, LF gives the line "Hi", and "Hi",
\* BOLD 1, newline gives the bold line.
C28_StyleAtFinalization ==
  /\ [][ (IsCommand("BOLD") \/ IsCommand("BOLD_MODE")) =>
          isBold' = Positive(ValueOf(CurrentItem)) ]_vars
  /\ [][ IsCommand("UNDERLINE") => hasUnderline' = Positive(ValueOf(CurrentItem)) ]_vars
  /\ [][ FinalizesLine =>
          IsStyled(lines'[Len(lines) + 1], currentLine, isBold, hasUnderline) ]_vars
  /\ []((mode = "buffer" /\ buffer = <<27, 69, 1, 72, 105, 27, 69, 0, 10>>
           /\ fpc = "done" /\ items = result) =>
          lines = << <<72, 105>> >>)
  /\ []((mode = "items" /\ fpc = "done"
           /\ items = <<TextItemOf(<<72, 105>>), ItemOf("BOLD", 1), NewLineItem>>) =>
          lines = << <<BOLD_OPEN, 72, 105, BOLD_CLOSE>> >>)

\* "Hi", BOLD 1, newline has been formatted: the text that arrived before
\* BOLD is inside the bold pair
C28_Witness ==
  /\ mode = "items" /\ fpc = "done"
  /\ items = <<TextItemOf(<<72, 105>>), ItemOf("BOLD", 1), NewLineItem>>
  /\ lines = << <<BOLD_OPEN, 72, 105, BOLD_CLOSE>> >>

\* ESC E 1, "Hi", ESC E 0, LF has been parsed and formatted into one line
C28_BoldOffReached ==
  /\ mode = "buffer" /\ buffer = <<27, 69, 1, 72, 105, 27, 69, 0, 10>>
  /\ fpc = "done" /\ items = result /\ Len(result) = 4 /\ Len(lines) = 1

\* a line has been finalized with both flags set: underscores outermost
C28_BothReached ==
  /\ fpc = "done" /\ isBold /\ hasUnderline
  /\ Len(lines) > 0
  /\ lines[1] = <<UNDERSCORE, BOLD_OPEN, 72, 105, BOLD_CLOSE, UNDERSCORE>>

\* UNDERLINE without a parameter has switched a set underline flag off
C28_AbsentReached ==
  /\ fpc = "format" /\ pos > 0 /\ ~hasUnderline
  /\ items[pos].type = "command" /\ items[pos].command = "UNDERLINE"
  /\ "value" \notin DOMAIN items[pos]
  /\ FlagAfter({"UNDERLINE"}, pos - 1)

====
